---- MODULE Spec2Model ----
(***************************************************************************)
(* brillvm: lowering of a Bril program to an LLVM module                   *)
(* (bril-rs/brillvm/src/llvm.rs, create_module_from_program).              *)
(*                                                                         *)
(* The state is the state of one run of create_module_from_program: the    *)
(* input program, the module being built (its functions, their basic       *)
(* blocks and the operations emitted into them), the builder's position,   *)
(* the per-function heaps and block map, the Fresh counter and the walk's  *)
(* locals (index, last_instr, added_timing, ticks_start_ref).              *)
(***************************************************************************)
EXTENDS Integers, Sequences, FiniteSets, TLC

(***************************************************************************)
(* Bounds of the model.                                                    *)
(***************************************************************************)
\* longest enumerated instruction list of the walked function
MaxLen == 3
\* most declared arguments of an enumerated entry function
MaxArgs == 2
\* largest literal of the enumerated phi programs
MaxVal == 2
\* most arguments of an enumerated print
MaxPrintArgs == 3
\* Type::Int => context.i64_type(): the width of a Bril int
IntWidth == 64

(***************************************************************************)
(* Bril syntax (bril_rs::{Code, Instruction, Function, Argument, Type}).   *)
(* Every Code item is a record of one shape; fields an item does not have  *)
(* are empty.                                                              *)
(***************************************************************************)
NoSeq == <<>>

Label(l) ==
  [kind |-> "label", op |-> "", dest |-> "", ty |-> "", args |-> NoSeq,
   labels |-> <<l>>, funcs |-> NoSeq, value |-> 0]

Constant(d, t, v) ==
  [kind |-> "const", op |-> "const", dest |-> d, ty |-> t, args |-> NoSeq,
   labels |-> NoSeq, funcs |-> NoSeq, value |-> v]

Value(o, d, t, as, ls, fs) ==
  [kind |-> "value", op |-> o, dest |-> d, ty |-> t, args |-> as,
   labels |-> ls, funcs |-> fs, value |-> 0]

Effect(o, as, ls, fs) ==
  [kind |-> "effect", op |-> o, dest |-> "", ty |-> "", args |-> as,
   labels |-> ls, funcs |-> fs, value |-> 0]

\* Option<Instruction>::None
None ==
  [kind |-> "none", op |-> "", dest |-> "", ty |-> "", args |-> NoSeq,
   labels |-> NoSeq, funcs |-> NoSeq, value |-> 0]

Argument(n, t) == [name |-> n, arg_type |-> t]

\* return_type is "none" for Option::None
Function(n, as, rt, is) ==
  [name |-> n, args |-> as, return_type |-> rt, instrs |-> is]

Program(fs, timing) == [functions |-> fs, add_timing |-> timing]

IsLabel(c) == c.kind = "label"

IsInstruction(c) == c.kind \in {"const", "value", "effect"}

IsPrint(c) == c.kind = "effect" /\ c.op = "print"

IsReturn(c) == c.kind = "effect" /\ c.op = "ret"

is_phi(c) == c.kind = "value" /\ c.op = "phi"

\* a return does not count as ending a block
is_branch_or_jump(i) == i.kind = "effect" /\ i.op \in {"br", "jmp"}

is_terminating_instr(i) ==
  i.kind = "effect" /\ i.op \in {"br", "jmp", "ret"}

(***************************************************************************)
(* Target IR.  An operand is a tagged tuple; an operation is a record      *)
(* whose first field op names it.  A stack slot is the alloca built for    *)
(* a name while the builder stood in function fn; a block is named by the  *)
(* function it was appended to and its label.                              *)
(***************************************************************************)
Slot(fn, name) == <<"slot", fn, name>>

Reg(n) == <<"reg", n>>

\* a generator whose fresh_var forgets self.count += 1
fresh_var_stuck(count) == count

\* Fresh::fresh_label: the name is made from count, the result is count
\* afterwards
fresh_label(count) == count + 1

\* Fresh::fresh_var: the name is Reg(count), the result is count afterwards
fresh_var(count) == count + 1

Param(i) == <<"param", i>>

Imm(v) == <<"imm", v>>

EntryLabel == "$entry"

Block(fn, l) == <<fn, l>>

NoBlock == <<0, "none">>

OpAlloca(p, t) == [op |-> "alloca", ptr |-> p, ty |-> t]

OpStore(p, v) == [op |-> "store", ptr |-> p, val |-> v]

OpLoad(r, p, t) == [op |-> "load", dst |-> r, ptr |-> p, ty |-> t]

OpPhi(r, inc) == [op |-> "phi", dst |-> r, incoming |-> inc]

OpBr(b) == [op |-> "br", target |-> b]

OpCondBr(c, b1, b2) == [op |-> "condbr", cond |-> c, then |-> b1, else |-> b2]

OpRet(v) == [op |-> "ret", val |-> v]

OpCall(f, as, r) == [op |-> "call", callee |-> f, args |-> as, dst |-> r]

OpBin(o, r, a, b) == [op |-> o, dst |-> r, lhs |-> a, rhs |-> b]

OpArgv(r, i) == [op |-> "argv", dst |-> r, idx |-> i]

Void == <<"void">>

IsTerminator(o) == o.op \in {"br", "condbr", "ret"}

(***************************************************************************)
(* The runtime library's functions, present in runtime_module before the   *)
(* pass starts.                                                            *)
(***************************************************************************)
RuntimeFuncs ==
  {"_bril_print_int", "_bril_print_bool", "_bril_print_float",
   "_bril_print_sep", "_bril_print_end", "_bril_parse_int",
   "_bril_parse_bool", "_bril_parse_float", "_bril_get_ticks_start",
   "_bril_get_ticks_end", "_bril_eprintln_unsigned_int"}

(***************************************************************************)
(* Heap: name -> WrappedPointer.                                           *)
(***************************************************************************)
EmptyMap == [n \in {} |-> 0]

WrappedPointer(fn, name, t) == [ty |-> t, ptr |-> Slot(fn, name)]

\* Heap::add that inserts instead of entry().or_insert_with(): a name
\* already registered gets new storage
HeapAddAgain(h, fn, name, t) ==
  LET h2 == [n \in DOMAIN h \cup {name} |->
               IF n = name THEN WrappedPointer(fn, name, t) ELSE h[n]]
  IN  [heap |-> h2,
       ops |-> <<OpAlloca(Slot(fn, name), t)>>,
       err |-> IF name \in DOMAIN h /\ h[name].ty # t THEN "TypeConflict" ELSE "none"]

\* Heap::add without the comparison of the registered type
HeapAddUnchecked(h, fn, name, t) ==
  [heap |-> IF name \in DOMAIN h THEN h
            ELSE h @@ (name :> WrappedPointer(fn, name, t)),
   ops |-> IF name \in DOMAIN h THEN <<>>
           ELSE <<OpAlloca(Slot(fn, name), t)>>,
   err |-> "none"]

\* Heap::add.  The alloca is built at the builder's position only when the
\* name is new; the type is compared against the registered one afterwards.
HeapAdd(h, fn, name, t) ==
  LET h2 == IF name \in DOMAIN h THEN h
            ELSE h @@ (name :> WrappedPointer(fn, name, t))
  IN  [heap |-> h2,
       ops |-> IF name \in DOMAIN h THEN <<>>
               ELSE <<OpAlloca(Slot(fn, name), t)>>,
       err |-> IF h2[name].ty # t THEN "TypeConflict" ELSE "none"]

\* Heap::get: unwrap of a missing name panics.
HeapHas(h, name) == name \in DOMAIN h

(***************************************************************************)
(* State of one run of create_module_from_program.                         *)
(***************************************************************************)
VARIABLES
  prog,            \* the input: Program { functions } and add_timing
  pc,              \* where the pass stands: declare, begin, walk, end,
                   \* finish, done, abort
  error,           \* the panic that aborted the pass, "none" otherwise
  fi,              \* position in functions (declare) or funcs (lowering)
  module,          \* names of the functions of runtime_module
  funcs,           \* the collected vector: per function its llvm_func name
                   \* and its heap (block is the function's entry block)
  blocks,          \* every basic block appended so far -> its operations
  order,           \* the blocks in the order they were appended
  cur,             \* the block the builder is positioned at the end of
  fresh,           \* Fresh.count
  index,           \* the walk's index into instrs
  last_instr,      \* the walk's last_instr
  block_map,       \* the walk's block_map: the labels that have a block
  added_timing,    \* added_timing
  ticks_start_ref  \* ticks_start_ref: None (Void) or the start-tick value

vars ==
  <<prog, pc, error, fi, module, funcs, blocks, order, cur, fresh, index,
    last_instr, block_map, added_timing, ticks_start_ref>>

Functions == prog.functions

NumFuncs == Len(Functions)

\* builder.build_*: append operations at the builder's position
Emit(bs, at, ops) == [bs EXCEPT ![at] = @ \o ops]

\* Module::add_function: LLVM's symbol table makes a taken name unique by
\* appending a suffix
AddFunctionName(m, n) ==
  IF n \notin m THEN n
  ELSE IF (n \o ".1") \notin m THEN n \o ".1"
  ELSE n \o ".2"

\* let func_name = if name == "main" { "_main" } else { name };
FuncName(name) == IF name = "main" THEN "_main" ELSE name

\* a lookup that finds a function whatever the name
get_function_any(m, n) == TRUE

\* module.get_function(n) is Some
get_function(m, n) == n \in m

(***************************************************************************)
(* First phase: declare every function, push its variables on the stack.   *)
(***************************************************************************)
\* The names a function declares, in the order Heap::add sees them: the
\* arguments (each followed by the store of its parameter), then the
\* destination of every Constant and Value instruction.
ArgDecls(f) ==
  [i \in 1..Len(f.args) |->
     [name |-> f.args[i].name, ty |-> f.args[i].arg_type, param |-> i]]

\* a pre-scan that passes over the instructions the walk would skip as dead
\* code
DestDeclsOfLive(f) ==
  LET dead(k) == \E j \in 1..(k - 1) :
                   /\ is_terminating_instr(f.instrs[j])
                   /\ \A m \in j..(k - 1) : ~IsLabel(f.instrs[m])
      marked == [k \in 1..Len(f.instrs) |-> [c |-> f.instrs[k], dead |-> dead(k)]]
      keep == SelectSeq(marked, LAMBDA m : m.c.kind \in {"const", "value"} /\ ~m.dead)
  IN  [i \in 1..Len(keep) |->
         [name |-> keep[i].c.dest, ty |-> keep[i].c.ty, param |-> 0]]

DestDecls(f) ==
  LET keep == SelectSeq(f.instrs, LAMBDA c : c.kind \in {"const", "value"})
  IN  [i \in 1..Len(keep) |->
         [name |-> keep[i].dest, ty |-> keep[i].ty, param |-> 0]]

\* the declarations without the pre-scan of the instruction list
DeclsOfArguments(f) == ArgDecls(f)

Decls(f) == ArgDecls(f) \o DestDecls(f)

RECURSIVE DeclareFrom(_, _, _, _)
\* heap.add for decls[i..], with the store of the parameter after an
\* argument's; stops at the first type conflict
DeclareFrom(h, fn, decls, i) ==
  IF i > Len(decls) THEN [heap |-> h, ops |-> <<>>, err |-> "none"]
  ELSE LET d == decls[i]
           a == HeapAdd(h, fn, d.name, d.ty)
           st == IF d.param > 0
                 THEN <<OpStore(a.heap[d.name].ptr, Param(d.param))>>
                 ELSE <<>>
       IN  IF a.err # "none" THEN [heap |-> a.heap, ops |-> a.ops, err |-> a.err]
           ELSE LET rest == DeclareFrom(a.heap, fn, decls, i + 1)
                IN  [heap |-> rest.heap, ops |-> a.ops \o st \o rest.ops,
                     err |-> rest.err]

Abort(kind) ==
  /\ pc' = "abort"
  /\ error' = kind

\* one heap made outside the closure and handed from function to function
HeapShared == IF funcs = <<>> THEN EmptyMap ELSE funcs[Len(funcs)].heap

\* let mut heap = Heap::new(); inside the closure, once per function
HeapNew == EmptyMap

\* a first phase that hands each function to the second phase as soon as
\* it is mapped (the iterator left lazy)
CollectedLazily(k) == TRUE

\* .collect(): the second phase starts when the map over functions has
\* run for every function, k being the one just mapped
AllCollected(k) == k >= NumFuncs

DeclareFunction ==
  /\ pc = "declare"
  /\ LET f == Functions[fi]
         llvm_func == AddFunctionName(module, FuncName(f.name))
         block == Block(fi, EntryLabel)
         d == DeclareFrom(HeapNew, fi, Decls(f), 1)
     IN  IF d.err # "none"
         THEN /\ Abort(d.err)
              /\ UNCHANGED <<prog, fi, module, funcs, blocks, order, cur, fresh,
                             index, last_instr, block_map, added_timing,
                             ticks_start_ref>>
         ELSE /\ module' = module \cup {llvm_func}
              /\ funcs' = Append(funcs, [llvm_func |-> llvm_func, heap |-> d.heap])
              /\ blocks' = blocks @@ (block :> d.ops)
              /\ order' = Append(order, block)
              /\ cur' = block
              /\ fresh' = fresh_label(fresh)
              /\ IF ~AllCollected(fi)
                 THEN /\ fi' = fi + 1
                      /\ pc' = "declare"
                 ELSE /\ fi' = 1
                      /\ pc' = "begin"
              /\ UNCHANGED <<prog, error, index, last_instr, block_map,
                             added_timing, ticks_start_ref>>

(***************************************************************************)
(* Instruction lowering.  A lowering returns what it did: err (the panic,  *)
(* "none" without one), ops (the operations built at the builder's         *)
(* position), fresh (Fresh.count afterwards) and labels (the labels it     *)
(* passed to block_map_get, in order).                                     *)
(***************************************************************************)
Built(e, os, fr, ls) == [err |-> e, ops |-> os, fresh |-> fr, labels |-> ls]

Panic(e, fr) == Built(e, <<>>, fr, <<>>)

RECURSIVE LoadArgs(_, _, _, _)
\* args.iter().map(|n| build_load(context, builder, &heap.get(n),
\* &fresh.fresh_var())): one load per argument, named by a fresh variable
LoadArgs(h, names, i, fr) ==
  IF i > Len(names)
  THEN [err |-> "none", ops |-> <<>>, vals |-> <<>>, fresh |-> fr]
  ELSE IF ~HeapHas(h, names[i])
  THEN [err |-> "UndeclaredVariable", ops |-> <<>>, vals |-> <<>>, fresh |-> fr]
  ELSE LET rest == LoadArgs(h, names, i + 1, fresh_var(fr))
           w == h[names[i]]
       IN  [err |-> rest.err,
            ops |-> <<OpLoad(Reg(fr), w.ptr, w.ty)>> \o rest.ops,
            vals |-> <<Reg(fr)>> \o rest.vals,
            fresh |-> rest.fresh]

\* The closure op handed to build_op or build_effect_op, applied to the
\* loaded values v: the operations it builds, its value and its panic.
\* A closure is the record of what it captured.
OpId == [kind |-> "id"]

OpCallOf(f, ret, void) == [kind |-> "call", callee |-> f, ret |-> ret, void |-> void]

OpBranchTo(b1, b2) == [kind |-> "br", then |-> b1, else |-> b2]

\* build_int_add, build_int_sub, build_int_mul, build_int_signed_div of
\* v[0] and v[1], named ret_name
OpArith(o, ret) == [kind |-> "arith", op |-> o, ret |-> ret]

\* the LLVM instruction each builder call appends
ArithInstr(o) ==
  CASE o = "add" -> "add"
    [] o = "sub" -> "sub"
    [] o = "mul" -> "mul"
    [] o = "div" -> "sdiv"

ApplyOp(op, v) ==
  CASE op.kind = "id" -> [err |-> "none", ops |-> <<>>, val |-> v[1]]
    [] op.kind = "call" ->
         [err |-> IF op.void THEN "VoidCallValue" ELSE "none",
          ops |-> <<OpCall(op.callee, v, op.ret)>>,
          val |-> op.ret]
    [] op.kind = "br" ->
         [err |-> "none", ops |-> <<OpCondBr(v[1], op.then, op.else)>>, val |-> Void]
    [] op.kind = "arith" ->
         [err |-> IF Len(v) < 2 THEN "IndexOutOfBounds" ELSE "none",
          ops |-> IF Len(v) < 2 THEN <<>>
                  ELSE <<OpBin(ArithInstr(op.op), op.ret, v[1], v[2])>>,
          val |-> op.ret]

\* build_op: heap.get(dest), the loads, the operation, the store of its
\* result
build_op(h, fr, op, args, dest) ==
  IF ~HeapHas(h, dest) THEN Panic("UndeclaredVariable", fr)
  ELSE LET l == LoadArgs(h, args, 1, fr)
       IN  IF l.err # "none" THEN Panic(l.err, l.fresh)
           ELSE LET r == ApplyOp(op, l.vals)
                IN  IF r.err # "none" THEN Panic(r.err, l.fresh)
                    ELSE Built("none",
                               l.ops \o r.ops \o <<OpStore(h[dest].ptr, r.val)>>,
                               l.fresh, <<>>)

\* build_effect_op: the loads, then the operation
build_effect_op(h, fr, op, args) ==
  LET l == LoadArgs(h, args, 1, fr)
  IN  IF l.err # "none" THEN Panic(l.err, l.fresh)
      ELSE Built("none", l.ops \o ApplyOp(op, l.vals).ops, l.fresh, <<>>)

\* The return type of the function a module name denotes ("none": void).
\* The runtime's functions are not callable from Bril source by these
\* programs, so only their presence matters.
ReturnTypeOf(fs, decl, n) ==
  IF \E k \in 1..Len(decl) : decl[k].llvm_func = n
  THEN fs[CHOOSE k \in 1..Len(decl) : decl[k].llvm_func = n].return_type
  ELSE "none"

RECURSIVE PrintArgsLenient(_, _, _, _)
\* the body of the print loop passing over an argument that has no slot
PrintArgsLenient(h, args, i, fr) ==
  IF i > Len(args) THEN Built("none", <<>>, fr, <<>>)
  ELSE IF ~HeapHas(h, args[i]) THEN PrintArgsLenient(h, args, i + 1, fr)
  ELSE LET w == h[args[i]]
           v == Reg(fr)
           ld == <<OpLoad(v, w.ptr, w.ty)>>
           call == CASE w.ty = "int" -> <<OpCall("_bril_print_int", <<v>>, Void)>>
                     [] w.ty = "bool" ->
                          <<OpBin("int_cast", <<"tmp", "bool_cast", fr>>, v, Imm(1)),
                            OpCall("_bril_print_bool",
                                   << <<"tmp", "bool_cast", fr>> >>, Void)>>
                     [] w.ty = "float" -> <<OpCall("_bril_print_float", <<v>>, Void)>>
                     [] OTHER -> <<>>
           sep == IF i - 1 < Len(args) - 1
                  THEN <<OpCall("_bril_print_sep", <<>>, Void)>> ELSE <<>>
       IN  IF w.ty \notin {"int", "bool", "float"}
           THEN Panic("PrintPointer", fresh_var(fr))
           ELSE LET rest == PrintArgsLenient(h, args, i + 1, fresh_var(fr))
                IN  Built(rest.err, ld \o call \o sep \o rest.ops, rest.fresh, <<>>)

RECURSIVE PrintArgsSeparatedAll(_, _, _, _)
\* the body of the print loop with a separator behind every argument
PrintArgsSeparatedAll(h, args, i, fr) ==
  IF i > Len(args) THEN Built("none", <<>>, fr, <<>>)
  ELSE IF ~HeapHas(h, args[i]) THEN Panic("UndeclaredVariable", fr)
  ELSE LET w == h[args[i]]
           v == Reg(fr)
           ld == <<OpLoad(v, w.ptr, w.ty)>>
           call == CASE w.ty = "int" -> <<OpCall("_bril_print_int", <<v>>, Void)>>
                     [] w.ty = "bool" ->
                          <<OpBin("int_cast", <<"tmp", "bool_cast", fr>>, v, Imm(1)),
                            OpCall("_bril_print_bool",
                                   << <<"tmp", "bool_cast", fr>> >>, Void)>>
                     [] w.ty = "float" -> <<OpCall("_bril_print_float", <<v>>, Void)>>
                     [] OTHER -> <<>>
           sep == <<OpCall("_bril_print_sep", <<>>, Void)>>
       IN  IF w.ty \notin {"int", "bool", "float"}
           THEN Panic("PrintPointer", fresh_var(fr))
           ELSE LET rest == PrintArgsSeparatedAll(h, args, i + 1, fresh_var(fr))
                IN  Built(rest.err, ld \o call \o sep \o rest.ops, rest.fresh, <<>>)

RECURSIVE PrintArgs(_, _, _, _)
\* the body of args.iter().enumerate().for_each of EffectOps::Print
PrintArgs(h, args, i, fr) ==
  IF i > Len(args) THEN Built("none", <<>>, fr, <<>>)
  ELSE IF ~HeapHas(h, args[i]) THEN Panic("UndeclaredVariable", fr)
  ELSE LET w == h[args[i]]
           v == Reg(fr)
           ld == <<OpLoad(v, w.ptr, w.ty)>>
           call == CASE w.ty = "int" -> <<OpCall("_bril_print_int", <<v>>, Void)>>
                     [] w.ty = "bool" ->
                          <<OpBin("int_cast", <<"tmp", "bool_cast", fr>>, v, Imm(1)),
                            OpCall("_bril_print_bool",
                                   << <<"tmp", "bool_cast", fr>> >>, Void)>>
                     [] w.ty = "float" -> <<OpCall("_bril_print_float", <<v>>, Void)>>
                     [] OTHER -> <<>>
           sep == IF i - 1 < Len(args) - 1
                  THEN <<OpCall("_bril_print_sep", <<>>, Void)>> ELSE <<>>
       IN  IF w.ty \notin {"int", "bool", "float"}
           THEN Panic("PrintPointer", fresh_var(fr))
           ELSE LET rest == PrintArgs(h, args, i + 1, fresh_var(fr))
                IN  Built(rest.err, ld \o call \o sep \o rest.ops, rest.fresh, <<>>)

\* build_instruction, for the operations these programs use
build_instruction(i, h, m, fs, decl, fn, fr) ==
  CASE i.kind = "const" ->
         IF ~HeapHas(h, i.dest) THEN Panic("UndeclaredVariable", fr)
         ELSE Built("none", <<OpStore(h[i.dest].ptr, Imm(i.value))>>, fr, <<>>)
    [] i.kind = "value" /\ i.op = "id" ->
         build_op(h, fr, OpId, i.args, i.dest)
    [] i.kind = "value" /\ i.op = "call" ->
         LET func_name == FuncName(i.funcs[1])
             ret_name == Reg(fr)
         IN  IF ~get_function(m, func_name) THEN Panic("UnresolvedCallee", fr)
             ELSE build_op(h, fresh_var(fr),
                           OpCallOf(func_name, ret_name,
                                    ReturnTypeOf(fs, decl, func_name) = "none"),
                           i.args, i.dest)
    [] i.kind = "value" /\ i.op \in {"add", "sub", "mul", "div"} ->
         LET ret_name == Reg(fr)
         IN  build_op(h, fresh_var(fr), OpArith(i.op, ret_name), i.args, i.dest)
    [] i.kind = "value" /\ i.op = "phi" -> Panic("MisplacedPhi", fr)
    [] i.kind = "effect" /\ i.op = "ret" ->
         IF i.args = <<>> THEN Built("none", <<OpRet(Void)>>, fr, <<>>)
         ELSE IF ~HeapHas(h, i.args[1]) THEN Panic("UndeclaredVariable", fr)
         ELSE Built("none",
                    <<OpLoad(Reg(fr), h[i.args[1]].ptr, h[i.args[1]].ty),
                      OpRet(Reg(fr))>>,
                    fresh_var(fr), <<>>)
    [] i.kind = "effect" /\ i.op = "call" ->
         LET func_name == FuncName(i.funcs[1])
         IN  IF ~get_function(m, func_name) THEN Panic("UnresolvedCallee", fr)
             ELSE build_effect_op(h, fresh_var(fr),
                                  OpCallOf(func_name, Reg(fr), FALSE), i.args)
    [] i.kind = "effect" /\ i.op = "nop" -> Built("none", <<>>, fr, <<>>)
    [] i.kind = "effect" /\ i.op = "print" ->
         LET p == PrintArgs(h, i.args, 1, fr)
         IN  IF p.err # "none" THEN Panic(p.err, p.fresh)
             ELSE Built("none",
                        p.ops \o <<OpCall("_bril_print_end", <<>>, Void)>>,
                        p.fresh, <<>>)
    [] i.kind = "effect" /\ i.op = "jmp" ->
         Built("none", <<OpBr(Block(fn, i.labels[1]))>>, fr, <<i.labels[1]>>)
    [] i.kind = "effect" /\ i.op = "br" ->
         LET b == build_effect_op(h, fr,
                                  OpBranchTo(Block(fn, i.labels[1]),
                                             Block(fn, i.labels[2])),
                                  i.args)
         IN  Built(b.err, b.ops, b.fresh, <<i.labels[1], i.labels[2]>>)

(***************************************************************************)
(* Phi nodes.                                                              *)
(***************************************************************************)
Min(a, b) == IF a < b THEN a ELSE b

\* build_phi with the labels zipped in reverse order
build_phi_reversed(i, h, fn, fr) ==
  LET name == Reg(fr)
      n == Min(Len(i.args), Len(i.labels))
  IN  IF \E k \in 1..Len(i.args) : ~HeapHas(h, i.args[k])
      THEN Built("UndeclaredVariable", <<>>, fresh_var(fr), i.labels)
      ELSE Built("none",
                 <<OpPhi(name, [k \in 1..n |->
                                  <<h[i.args[k]].ptr,
                                    Block(fn, i.labels[n + 1 - k])>>])>>,
                 fresh_var(fr), i.labels)

\* build_phi: a pointer-typed phi over the stack slots of the arguments,
\* one incoming (slot, block) per zipped (argument, label) pair
build_phi(i, h, fn, fr) ==
  LET name == Reg(fr)
      n == Min(Len(i.args), Len(i.labels))
  IN  IF \E k \in 1..Len(i.args) : ~HeapHas(h, i.args[k])
      THEN Built("UndeclaredVariable", <<>>, fresh_var(fr), i.labels)
      ELSE Built("none",
                 <<OpPhi(name, [k \in 1..n |->
                                  <<h[i.args[k]].ptr, Block(fn, i.labels[k])>>])>>,
                 fresh_var(fr), i.labels)

\* finish_phi: load through the pointer the phi selected, store into dest
finish_phi(i, h, fr, ptr) ==
  IF ~HeapHas(h, i.dest) THEN Panic("UndeclaredVariable", fr)
  ELSE Built("none",
             <<OpLoad(Reg(fr), ptr, i.ty), OpStore(h[i.dest].ptr, Reg(fr))>>,
             fresh_var(fr), <<>>)

\* a loop over the run that never takes a phi
PhiRunEndNowhere(instrs, phi_index) == phi_index

\* a run that ends behind its first phi
PhiRunEndAtOnce(instrs, phi_index) == phi_index + 1

RECURSIVE PhiRunEnd(_, _)
\* while phi_index < instrs.len() && is_phi(&instrs[phi_index]): where it
\* stops (0-based, as index)
PhiRunEnd(instrs, phi_index) ==
  IF phi_index < Len(instrs) /\ is_phi(instrs[phi_index + 1])
  THEN PhiRunEnd(instrs, phi_index + 1)
  ELSE phi_index

RECURSIVE BuildPhis(_, _, _, _, _, _)
\* the first loop over the run instrs[from..to): build_phi of each
BuildPhis(instrs, from, to, h, fn, fr) ==
  IF from >= to THEN [err |-> "none", ops |-> <<>>, fresh |-> fr,
                      labels |-> <<>>, ptrs |-> <<>>]
  ELSE LET b == build_phi(instrs[from + 1], h, fn, fr)
       IN  IF b.err # "none"
           THEN [err |-> b.err, ops |-> <<>>, fresh |-> b.fresh,
                 labels |-> b.labels, ptrs |-> <<>>]
           ELSE LET rest == BuildPhis(instrs, from + 1, to, h, fn, b.fresh)
                IN  [err |-> rest.err, ops |-> b.ops \o rest.ops,
                     fresh |-> rest.fresh, labels |-> b.labels \o rest.labels,
                     ptrs |-> <<b.ops[1].dst>> \o rest.ptrs]

RECURSIVE FinishPhis(_, _, _, _, _, _)
\* the second loop, over phi_ptrs: finish_phi of each
FinishPhis(instrs, from, to, h, fr, ptrs) ==
  IF from >= to THEN Built("none", <<>>, fr, <<>>)
  ELSE LET f == finish_phi(instrs[from + 1], h, fr, ptrs[1])
       IN  IF f.err # "none" THEN Panic(f.err, f.fresh)
           ELSE LET rest == FinishPhis(instrs, from + 1, to, h, f.fresh, Tail(ptrs))
                IN  Built(rest.err, f.ops \o rest.ops, rest.fresh, <<>>)

(***************************************************************************)
(* block_map_get over a list of labels: a label without a block gets a     *)
(* new, empty block appended to llvm_func.                                 *)
(***************************************************************************)
\* a registry that appends a block for a label whether or not it has one
NewLabelsAlways(bm, ls, i) == SubSeq(ls, i, Len(ls))

RECURSIVE NewLabels(_, _, _)
\* the labels of ls[i..] that block_map_get has to create, each once
NewLabels(bm, ls, i) ==
  IF i > Len(ls) THEN <<>>
  ELSE IF ls[i] \in bm THEN NewLabels(bm, ls, i + 1)
  ELSE <<ls[i]>> \o NewLabels(bm \cup {ls[i]}, ls, i + 1)

Range(s) == {s[k] : k \in 1..Len(s)}

block_map_get(bs, fn, new) ==
  bs @@ [b \in {Block(fn, l) : l \in Range(new)} |-> <<>>]

BlocksOf(fn, new) == [k \in 1..Len(new) |-> Block(fn, new[k])]

(***************************************************************************)
(* Timing instrumentation of the print of _main (the head of the walk's    *)
(* loop body).                                                             *)
(***************************************************************************)
TimingApplies(timing, llvm_name, instrs, idx) ==
  /\ timing
  /\ llvm_name = "_main"
  /\ IsPrint(instrs[idx + 1])

\* the assert!, then the end tick, the difference and its print
TimingPrint(instrs, idx, start, fr) ==
  IF ~(idx = Len(instrs) - 1 \/ IsReturn(instrs[idx + 2]))
  THEN Panic("InstrumentationPlacement", fr)
  ELSE IF start = Void THEN Panic("MissingStartTick", fresh_var(fresh_var(fr)))
  ELSE Built("none",
             <<OpCall("_bril_get_ticks_end", <<>>, Reg(fr)),
               OpBin("sub", Reg(fresh_var(fr)), Reg(fr), start),
               OpCall("_bril_eprintln_unsigned_int", <<Reg(fresh_var(fr))>>, Void)>>,
             fresh_var(fresh_var(fr)), <<>>)

(***************************************************************************)
(* Second phase: build each function.                                      *)
(***************************************************************************)
CurInstrs == Functions[fi].instrs

CurHeap == funcs[fi].heap

CurName == funcs[fi].llvm_func

\* a step of the loop that leaves the index where it is
NextIndexStays(idx) == idx

\* index += 1
NextIndex(idx) == idx + 1

\* the loop condition of while index < instrs.len()
AfterStep(idx) == IF idx < Len(CurInstrs) THEN "walk" ELSE "end"

\* the head of the loop body: the instrumentation of a print of _main
TimingHead ==
  IF TimingApplies(prog.add_timing, CurName, CurInstrs, index)
  THEN [on |-> TRUE, r |-> TimingPrint(CurInstrs, index, ticks_start_ref, fresh)]
  ELSE [on |-> FALSE, r |-> Built("none", <<>>, fresh, <<>>)]

BeginFunction ==
  /\ pc = "begin"
  /\ last_instr' = None
  /\ block_map' = {}
  /\ index' = 0
  /\ IF CurInstrs # <<>>
     THEN /\ cur' = Block(fi, EntryLabel)
          /\ IF prog.add_timing /\ CurName = "_main"
             THEN /\ blocks' = Emit(blocks, Block(fi, EntryLabel),
                                    <<OpCall("_bril_get_ticks_start", <<>>, Reg(fresh))>>)
                  /\ ticks_start_ref' = Reg(fresh)
                  /\ fresh' = fresh_var(fresh)
             ELSE UNCHANGED <<blocks, ticks_start_ref, fresh>>
          /\ pc' = "walk"
     ELSE /\ pc' = "end"
          /\ UNCHANGED <<cur, blocks, ticks_start_ref, fresh>>
  /\ UNCHANGED <<prog, error, fi, module, funcs, order, added_timing>>

\* if is_terminating_instr(&last_instr) && matches!(instrs[index],
\* Code::Instruction { .. }) { index += 1; continue; }
SkipDeadCode ==
  /\ pc = "walk"
  /\ is_terminating_instr(last_instr)
  /\ IsInstruction(CurInstrs[index + 1])
  /\ LET t == TimingHead
     IN  IF t.r.err # "none"
         THEN /\ Abort(t.r.err)
              /\ UNCHANGED <<blocks, fresh, added_timing, index>>
         ELSE /\ blocks' = Emit(blocks, cur, t.r.ops)
              /\ fresh' = t.r.fresh
              /\ added_timing' = (added_timing \/ t.on)
              /\ index' = NextIndex(index)
              /\ pc' = AfterStep(NextIndex(index))
              /\ UNCHANGED error
  /\ UNCHANGED <<prog, fi, module, funcs, order, cur, last_instr, block_map,
                 ticks_start_ref>>

\* the two loops over a run of phi instructions, and
\* if phi_index > index { index = phi_index; continue; }
LowerPhiRun ==
  /\ pc = "walk"
  /\ ~is_terminating_instr(last_instr)
  /\ is_phi(CurInstrs[index + 1])
  /\ PhiRunEnd(CurInstrs, index) > index
  /\ LET phi_index == PhiRunEnd(CurInstrs, index)
         b == BuildPhis(CurInstrs, index, phi_index, CurHeap, fi, fresh)
         f == FinishPhis(CurInstrs, index, phi_index, CurHeap, b.fresh, b.ptrs)
         new == NewLabels(block_map, b.labels, 1)
     IN  IF b.err # "none" \/ f.err # "none"
         THEN /\ Abort(IF b.err # "none" THEN b.err ELSE f.err)
              /\ UNCHANGED <<blocks, order, fresh, block_map, last_instr, index>>
         ELSE /\ blocks' = Emit(block_map_get(blocks, fi, new), cur, b.ops \o f.ops)
              /\ order' = order \o BlocksOf(fi, new)
              /\ block_map' = block_map \cup Range(new)
              /\ fresh' = f.fresh
              /\ last_instr' = CurInstrs[phi_index]
              /\ index' = phi_index
              /\ pc' = AfterStep(phi_index)
              /\ UNCHANGED error
  /\ UNCHANGED <<prog, fi, module, funcs, cur, added_timing, ticks_start_ref>>

\* bril_rs::Code::Label
LowerLabel ==
  /\ pc = "walk"
  /\ IsLabel(CurInstrs[index + 1])
  /\ LET label == CurInstrs[index + 1].labels[1]
         new == NewLabels(block_map, <<label>>, 1)
         new_block == Block(fi, label)
         bs == block_map_get(blocks, fi, new)
     IN  /\ blocks' = IF ~is_terminating_instr(last_instr)
                      THEN Emit(bs, cur, <<OpBr(new_block)>>)
                      ELSE bs
         /\ order' = order \o BlocksOf(fi, new)
         /\ block_map' = block_map \cup {label}
         /\ cur' = new_block
  /\ last_instr' = None
  /\ index' = NextIndex(index)
  /\ pc' = AfterStep(NextIndex(index))
  /\ UNCHANGED <<prog, error, fi, module, funcs, fresh, added_timing,
                 ticks_start_ref>>

\* bril_rs::Code::Instruction(i), reached when the phi loops found no run
\* at index: build_instruction
LowerInstruction ==
  /\ pc = "walk"
  /\ ~is_terminating_instr(last_instr)
  /\ IsInstruction(CurInstrs[index + 1])
  /\ ~(is_phi(CurInstrs[index + 1]) /\ PhiRunEnd(CurInstrs, index) > index)
  /\ LET i == CurInstrs[index + 1]
         t == TimingHead
         b == build_instruction(i, CurHeap, module, Functions, funcs, fi, t.r.fresh)
         new == NewLabels(block_map, b.labels, 1)
     IN  IF t.r.err # "none" \/ b.err # "none"
         THEN /\ Abort(IF t.r.err # "none" THEN t.r.err ELSE b.err)
              /\ UNCHANGED <<blocks, order, fresh, block_map, last_instr, index,
                             added_timing>>
         ELSE /\ blocks' = Emit(block_map_get(blocks, fi, new), cur, t.r.ops \o b.ops)
              /\ order' = order \o BlocksOf(fi, new)
              /\ block_map' = block_map \cup Range(new)
              /\ fresh' = b.fresh
              /\ added_timing' = (added_timing \/ t.on)
              /\ last_instr' = i
              /\ index' = NextIndex(index)
              /\ pc' = AfterStep(NextIndex(index))
              /\ UNCHANGED error
  /\ UNCHANGED <<prog, fi, module, funcs, cur, ticks_start_ref>>

\* an end-of-function rule that returns whatever the return type
end_rule_returns(last, rt, bm) ==
  IF is_terminating_instr(last) THEN "nothing" ELSE "return"

\* if !is_terminating_instr(&last_instr): build_return(None) for a function
\* without return type; otherwise assert!(!block_map.is_empty()) and the
\* jump to block_map.values().next()
end_rule(last, rt, bm) ==
  IF is_terminating_instr(last) THEN "nothing"
  ELSE IF rt = "none" THEN "return"
  ELSE IF bm = {} THEN "panic"
  ELSE "jump"

\* "Make sure every function is terminated with a return if not already";
\* then the next function of funcs
EndFunction ==
  /\ pc = "end"
  /\ LET rule == end_rule(last_instr, Functions[fi].return_type, block_map)
     IN  IF rule = "panic"
         THEN /\ Abort("MalformedTerminator")
              /\ UNCHANGED <<blocks, fi>>
         ELSE /\ \E l \in (IF rule = "jump" THEN block_map ELSE {""}) :
                   blocks' = CASE rule = "nothing" -> blocks
                               [] rule = "return" -> Emit(blocks, cur, <<OpRet(Void)>>)
                               [] rule = "jump" ->
                                    Emit(blocks, cur, <<OpBr(Block(fi, l))>>)
              /\ IF fi < NumFuncs
                 THEN /\ fi' = fi + 1
                      /\ pc' = "begin"
                 ELSE /\ fi' = fi
                      /\ pc' = "finish"
              /\ UNCHANGED error
  /\ UNCHANGED <<prog, module, funcs, order, cur, fresh, index, last_instr,
                 block_map, added_timing, ticks_start_ref>>

(***************************************************************************)
(* The synthesized entry point: main(argc, argv).                          *)
(***************************************************************************)
Tmp(what, i) == <<"tmp", what, i>>

ParserOf(t) ==
  CASE t = "int" -> "_bril_parse_int"
    [] t = "bool" -> "_bril_parse_bool"
    [] t = "float" -> "_bril_parse_float"
    [] OTHER -> ""

RECURSIVE ParseArgs(_, _, _, _, _)
\* function.get_param_iter().enumerate().for_each(|(i, _)| ...), i 0-based:
\* the slot of args[i], the text at argv[i + 1], its parse, the store
ParseArgs(h, fn, args, nparams, i) ==
  IF i >= nparams THEN [heap |-> h, ops |-> <<>>, err |-> "none"]
  ELSE IF i >= Len(args) THEN [heap |-> h, ops |-> <<>>, err |-> "IndexOutOfBounds"]
  ELSE LET a == args[i + 1]
           d == HeapAdd(h, fn, a.name, a.arg_type)
           ptr == d.heap[a.name].ptr
           arg_str == Tmp("load arg", i)
           arg == Tmp("parse", i)
       IN  IF d.err # "none" THEN [heap |-> d.heap, ops |-> d.ops, err |-> d.err]
           ELSE IF ParserOf(a.arg_type) = ""
           THEN [heap |-> d.heap, ops |-> d.ops, err |-> "ParsePointer"]
           ELSE LET rest == ParseArgs(d.heap, fn, args, nparams, i + 1)
                IN  [heap |-> rest.heap,
                     ops |-> d.ops
                             \o <<OpArgv(arg_str, i + 1),
                                  OpCall(ParserOf(a.arg_type), <<arg_str>>, arg),
                                  OpStore(ptr, arg)>>
                             \o rest.ops,
                     err |-> rest.err]

HasSourceMain == \E k \in 1..NumFuncs : Functions[k].name = "main"

\* functions.iter().find(|Function { name, .. }| name == "main")
SourceMain == Functions[CHOOSE k \in 1..NumFuncs :
                          /\ Functions[k].name = "main"
                          /\ \A j \in 1..(k - 1) : Functions[j].name # "main"]

\* the number of parameters of the module's function _main
MainParams ==
  Len(Functions[CHOOSE k \in 1..Len(funcs) : funcs[k].llvm_func = "_main"].args)

\* the body of main: what it builds in its entry block, or its panic
EntryBody(fn) ==
  IF ~get_function(module, "_main")
  THEN Built("none", <<OpRet(Imm(0))>>, fresh_label(fresh), <<>>)
  ELSE IF ~HasSourceMain THEN Panic("MissingMain", fresh_label(fresh))
  ELSE LET args == SourceMain.args
           p == ParseArgs(EmptyMap, fn, args, MainParams, 0)
           names == [k \in 1..Len(args) |-> args[k].name]
           c == build_effect_op(p.heap, fresh_label(fresh),
                                OpCallOf("_main", Tmp("call main", 0), FALSE),
                                names)
       IN  IF p.err # "none" THEN Panic(p.err, fresh_label(fresh))
           ELSE IF c.err # "none" THEN Panic(c.err, c.fresh)
           ELSE Built("none", p.ops \o c.ops \o <<OpRet(Imm(0))>>, c.fresh, <<>>)

\* if add_timing { assert!(added_timing); }, the entry point, the return
\* of the module
FinishModule ==
  /\ pc = "finish"
  /\ LET entry_func == AddFunctionName(module, "main")
         entry_block == Block(NumFuncs + 1, EntryLabel)
         e == EntryBody(NumFuncs + 1)
     IN  IF prog.add_timing /\ ~added_timing
         THEN /\ Abort("InstrumentationPlacement")
              /\ UNCHANGED <<module, blocks, order, cur, fresh>>
         ELSE IF e.err # "none"
         THEN /\ Abort(e.err)
              /\ UNCHANGED <<module, blocks, order, cur, fresh>>
         ELSE /\ module' = module \cup {entry_func}
              /\ blocks' = blocks @@ (entry_block :> e.ops)
              /\ order' = Append(order, entry_block)
              /\ cur' = entry_block
              /\ fresh' = e.fresh
              /\ pc' = "done"
              /\ UNCHANGED error
  /\ UNCHANGED <<prog, fi, funcs, index, last_instr, block_map, added_timing,
                 ticks_start_ref>>

(***************************************************************************)
(* The programs the pass is run on.                                        *)
(***************************************************************************)
\* the Code items of an enumerated instruction list
CodeItems ==
  {Label("A"), Label("B"),
   Constant("x", "int", 1),
   Effect("jmp", <<>>, <<"A">>, <<>>),
   Effect("br", <<"c">>, <<"A", "B">>, <<>>),
   Effect("ret", <<>>, <<>>, <<>>),
   Effect("print", <<"x">>, <<>>, <<>>),
   Effect("nop", <<>>, <<>>, <<>>),
   Value("phi", "x", "int", <<"x">>, <<"A">>, <<>>)}

WalkArgs == <<Argument("x", "int"), Argument("c", "bool")>>

\* a function without instructions
EmptyFunction(n) == Function(n, <<>>, "none", <<>>)

Walked(n, rt, b) == Function(n, WalkArgs, rt, b)

WalkShapes == 1..7

\* one function with an enumerated instruction list b, alone or beside
\* another function (which, in shape 7, uses the same variables and the
\* label A)
WalkProgram(shape, b) ==
  CASE shape = 1 -> Program(<<Walked("main", "none", b)>>, FALSE)
    [] shape = 2 -> Program(<<Walked("main", "none", b)>>, TRUE)
    [] shape = 3 -> Program(<<Walked("f", "int", b)>>, FALSE)
    [] shape = 4 -> Program(<<Walked("main", "none", b), EmptyFunction("g")>>, FALSE)
    [] shape = 5 -> Program(<<EmptyFunction("g"), Walked("main", "none", b)>>, FALSE)
    [] shape = 6 -> Program(<<Function("g", <<>>, "none",
                                       <<Effect("nop", <<>>, <<>>, <<>>)>>),
                              Walked("main", "none", b)>>, FALSE)
    [] shape = 7 -> Program(<<Walked("g", "none",
                                     <<Effect("jmp", <<>>, <<"A">>, <<>>),
                                       Label("A"),
                                       Constant("x", "int", 1)>>),
                              Walked("main", "none", b)>>, FALSE)

IsWalkProgram(p) ==
  \E k \in 0..MaxLen : \E b \in [1..k -> CodeItems] : \E sh \in WalkShapes :
    p = WalkProgram(sh, b)

\* Two predecessors P1 and P2 assign a and b and jump to M, which starts
\* with r = phi [o1, P1], [o2, P2]; with after, a is assigned again behind
\* the phi.
PhiVars == {"a", "b"}

PhiVals == 1..MaxVal

DiamondProgram(o1, o2, v1, v2, after) ==
  Program(
    <<Function("f", <<Argument("c", "bool")>>, "none",
        <<Effect("br", <<"c">>, <<"P1", "P2">>, <<>>),
          Label("P1"),
          Constant("a", "int", v1), Constant("b", "int", v1 + 10),
          Effect("jmp", <<>>, <<"M">>, <<>>),
          Label("P2"),
          Constant("a", "int", v2), Constant("b", "int", v2 + 10),
          Effect("jmp", <<>>, <<"M">>, <<>>),
          Label("M"),
          Value("phi", "r", "int", <<o1, o2>>, <<"P1", "P2">>, <<>>)>>
        \o (IF after THEN <<Constant("a", "int", 0), Constant("b", "int", 0)>>
            ELSE <<>>)
        \o <<Effect("ret", <<>>, <<>>, <<>>)>>)>>,
    FALSE)

IsDiamondProgram(p) ==
  \E o1 \in PhiVars, o2 \in PhiVars, v1 \in PhiVals, v2 \in PhiVals, after \in BOOLEAN :
    p = DiamondProgram(o1, o2, v1, v2, after)

\* A predecessor P assigns x and y and jumps to Q, which starts with the
\* run d1 = phi [o1, P]; d2 = phi [o2, P].
RunVars == {"x", "y"}

PhiRunProgram(d1, o1, d2, o2, v1, v2) ==
  Program(
    <<Function("f", <<>>, "none",
        <<Label("P"),
          Constant("x", "int", v1), Constant("y", "int", v2),
          Effect("jmp", <<>>, <<"Q">>, <<>>),
          Label("Q"),
          Value("phi", d1, "int", <<o1>>, <<"P">>, <<>>),
          Value("phi", d2, "int", <<o2>>, <<"P">>, <<>>),
          Effect("ret", <<>>, <<>>, <<>>)>>)>>,
    FALSE)

IsPhiRunProgram(p) ==
  \E d1 \in RunVars, o1 \in RunVars, d2 \in RunVars, o2 \in RunVars,
     v1 \in PhiVals, v2 \in PhiVals :
    /\ d1 # d2
    /\ p = PhiRunProgram(d1, o1, d2, o2, v1, v2)

\* Declarations of one name with one type or with two: as an argument, as
\* the destination of a Constant or of a Value, behind a return; in one
\* function or in two (g declares x as an int, and as its argument says).
DeclItems ==
  {Constant("x", "int", 1), Constant("x", "bool", 1),
   Value("id", "x", "bool", <<"x">>, <<>>, <<>>),
   Effect("ret", <<>>, <<>>, <<>>)}

DeclArgs == {<<>>, <<Argument("x", "int")>>, <<Argument("x", "bool")>>}

DeclProgram(first, a1, a2, b) ==
  LET f == Function("f", a1, "none", b)
      g == Function("g", a2, "none", <<Constant("x", "int", 1)>>)
  IN  IF first THEN Program(<<f, g>>, FALSE) ELSE Program(<<g, f>>, FALSE)

IsDeclProgram(p) ==
  \E k \in 0..MaxLen : \E b \in [1..k -> DeclItems] :
    \E a1 \in DeclArgs, a2 \in DeclArgs, first \in BOOLEAN :
      p = DeclProgram(first, a1, a2, b)

\* One or two functions, each calling (in value or effect form) a function
\* that is the other one, itself, or no function of the program.
FuncNames == {"main", "f", "_main"}

Callees == FuncNames \cup {"h"}

CallInstr(value, callee) ==
  IF value THEN Value("call", "v", "int", <<>>, <<>>, <<callee>>)
  ELSE Effect("call", <<>>, <<>>, <<callee>>)

Caller(n, rt, value, callee) ==
  Function(n, <<>>, rt,
           <<Constant("v", "int", 1), CallInstr(value, callee)>>
           \o (IF rt = "none" THEN <<>> ELSE <<Effect("ret", <<"v">>, <<>>, <<>>)>>))

Callers(n) ==
  {Caller(n, rt, value, callee) :
     rt \in {"none", "int"}, value \in BOOLEAN, callee \in Callees}

IsCallProgram(p) ==
  \/ \E n \in FuncNames : \E f \in Callers(n) : p = Program(<<f>>, FALSE)
  \/ \E n1 \in FuncNames, n2 \in FuncNames :
       /\ n1 # n2
       /\ \E f1 \in Callers(n1), f2 \in Callers(n2) : p = Program(<<f1, f2>>, FALSE)

\* main with up to MaxArgs typed arguments, alone or beside a function
\* named _main with arguments of its own.
ArgTypes == {"int", "bool", "float", "ptr"}

ArgName(i) ==
  CASE i = 1 -> "a1" [] i = 2 -> "a2" [] i = 3 -> "a3" [] OTHER -> "a4"

ArgList(ts) == [i \in 1..Len(ts) |-> Argument(ArgName(i), ts[i])]

IntArgs(n) == [i \in 1..n |-> Argument(ArgName(i), "int")]

EntryShapes == 1..3

EntryProgram(shape, ts, n2) ==
  LET m == Function("main", ArgList(ts), "none", <<Effect("ret", <<>>, <<>>, <<>>)>>)
      u == Function("_main", IntArgs(n2), "none", <<Effect("ret", <<>>, <<>>, <<>>)>>)
  IN  CASE shape = 1 -> Program(<<m>>, FALSE)
        [] shape = 2 -> Program(<<m, u>>, FALSE)
        [] shape = 3 -> Program(<<u, m>>, FALSE)

IsEntryProgram(p) ==
  \E n \in 0..MaxArgs : \E ts \in [1..n -> ArgTypes] :
    \E sh \in EntryShapes, n2 \in 0..MaxArgs : p = EntryProgram(sh, ts, n2)

\* One function that prints up to MaxPrintArgs of its arguments, which
\* are of the four types.
PrintVars == {"i", "b", "f", "p"}

PrintParams ==
  <<Argument("i", "int"), Argument("b", "bool"), Argument("f", "float"),
    Argument("p", "ptr")>>

PrintProgram(as) ==
  Program(<<Function("f", PrintParams, "none",
                     <<Effect("print", as, <<>>, <<>>),
                       Effect("ret", <<>>, <<>>, <<>>)>>)>>, FALSE)

IsPrintProgram(p) ==
  \E n \in 0..MaxPrintArgs : \E as \in [1..n -> PrintVars] : p = PrintProgram(as)

\* main(x: int), with or without instrumentation, or f(x: int, p: ptr),
\* with an enumerated instruction list whose instructions read y, which
\* only the constant declares
ScopeArgs(n) ==
  IF n = "main" THEN <<Argument("x", "int")>>
  ELSE <<Argument("x", "int"), Argument("p", "ptr")>>

ScopeItems ==
  {Label("A"),
   Constant("y", "int", 1),
   Value("id", "x", "int", <<"y">>, <<>>, <<>>),
   Value("phi", "x", "int", <<"y">>, <<"A">>, <<>>),
   Effect("print", <<"y">>, <<>>, <<>>),
   Effect("print", <<"p", "y">>, <<>>, <<>>),
   Effect("call", <<"y">>, <<>>, <<"nofn">>),
   Effect("ret", <<>>, <<>>, <<>>)}

ScopeProgram(n, b, timing) ==
  Program(<<Function(n, ScopeArgs(n), "none", b)>>, timing)

IsScopeProgram(p) ==
  \E k \in 0..MaxLen : \E b \in [1..k -> ScopeItems] :
    \/ \E t \in BOOLEAN : p = ScopeProgram("main", b, t)
    \/ p = ScopeProgram("f", b, FALSE)

(***************************************************************************)
(* i64 values: IntWidth bits in two's complement, as limbs of eight bits,  *)
(* the least significant first.                                            *)
(***************************************************************************)
Base == 2 ^ 8

NumLimbs == IntWidth \div 8

RECURSIVE LimbsOf(_, _)
\* the k low limbs of the integer n
LimbsOf(n, k) ==
  IF k = 0 THEN <<>> ELSE <<n % Base>> \o LimbsOf(n \div Base, k - 1)

WordOf(n) == LimbsOf(n, NumLimbs)

MinWord == [k \in 1..NumLimbs |-> IF k = NumLimbs THEN Base \div 2 ELSE 0]

MaxWord == [k \in 1..NumLimbs |-> IF k = NumLimbs THEN Base \div 2 - 1 ELSE Base - 1]

RECURSIVE AddLimbs(_, _, _, _)
\* a + b + c modulo 2^IntWidth, from limb k on
AddLimbs(a, b, k, c) ==
  IF k > NumLimbs THEN <<>>
  ELSE LET t == a[k] + b[k] + c
       IN  <<t % Base>> \o AddLimbs(a, b, k + 1, t \div Base)

WNot(a) == [k \in 1..NumLimbs |-> Base - 1 - a[k]]

WAdd(a, b) == AddLimbs(a, b, 1, 0)

WSub(a, b) == AddLimbs(a, WNot(b), 1, 1)

WNeg(a) == WSub(WordOf(0), a)

RECURSIVE ColumnSum(_, _, _, _)
\* the products a[i] * b[k + 1 - i] of column k, from i on
ColumnSum(a, b, k, i) ==
  IF i > k THEN 0 ELSE a[i] * b[k + 1 - i] + ColumnSum(a, b, k, i + 1)

RECURSIVE MulLimbs(_, _, _, _)
MulLimbs(a, b, k, c) ==
  IF k > NumLimbs THEN <<>>
  ELSE LET t == ColumnSum(a, b, k, 1) + c
       IN  <<t % Base>> \o MulLimbs(a, b, k + 1, t \div Base)

WMul(a, b) == MulLimbs(a, b, 1, 0)

IsNegative(a) == a[NumLimbs] >= Base \div 2

Magnitude(a) == IF IsNegative(a) THEN WNeg(a) ELSE a

\* bit i of a, bit 0 the least significant
Bit(a, i) == (a[i \div 8 + 1] \div (2 ^ (i % 8))) % 2

RECURSIVE ULessFrom(_, _, _)
\* a < b as unsigned numbers, comparing from limb k down
ULessFrom(a, b, k) ==
  IF k = 0 THEN FALSE
  ELSE IF a[k] # b[k] THEN a[k] < b[k]
  ELSE ULessFrom(a, b, k - 1)

ULess(a, b) == ULessFrom(a, b, NumLimbs)

RECURSIVE DivBits(_, _, _, _, _)
\* long division of the unsigned n by d # 0, from bit i down: the quotient
DivBits(n, d, i, q, r) ==
  IF i < 0 THEN q
  ELSE LET r2 == AddLimbs(r, r, 1, Bit(n, i))
           bit == IF ULess(r2, d) THEN 0 ELSE 1
           q2 == AddLimbs(q, q, 1, bit)
           r3 == IF bit = 1 THEN WSub(r2, d) ELSE r2
       IN  IF Len(q2) = NumLimbs /\ Len(r3) = NumLimbs
           THEN DivBits(n, d, i - 1, q2, r3)
           ELSE <<>>

UDiv(n, d) == DivBits(n, d, IntWidth - 1, WordOf(0), WordOf(0))

\* the quotient rounded towards zero, modulo 2^IntWidth
WDiv(a, b) ==
  LET q == UDiv(Magnitude(a), Magnitude(b))
  IN  IF IsNegative(a) # IsNegative(b) THEN WNeg(q) ELSE q

\* LLVM's sdiv is undefined for a zero divisor and for the overflowing
\* quotient of the least value by -1
SDivUndefined(a, b) == b = WordOf(0) \/ (a = MinWord /\ b = WordOf(0 - 1))

\* f: a = const va; b = const vb; r = op a b; ret, for the four integer
\* operations and operands at and next to the ends of the i64 range
ArithOps == {"add", "sub", "mul", "div"}

Boundary ==
  {MinWord, WAdd(MinWord, WordOf(1)), WordOf(0 - 2), WordOf(0 - 1), WordOf(0),
   WordOf(1), WordOf(2), WordOf(7), WSub(MaxWord, WordOf(1)), MaxWord}

ArithProgram(o, va, vb) ==
  Program(<<Function("f", <<>>, "none",
                     <<Constant("a", "int", va),
                       Constant("b", "int", vb),
                       Value(o, "r", "int", <<"a", "b">>, <<>>, <<>>),
                       Effect("ret", <<>>, <<>>, <<>>)>>)>>, FALSE)

IsArithProgram(p) ==
  \E o \in ArithOps : \E va \in Boundary, vb \in Boundary :
    p = ArithProgram(o, va, vb)

InputProgram(p) ==
  \/ IsArithProgram(p)
  \/ IsPrintProgram(p)
  \/ IsScopeProgram(p)
  \/ IsWalkProgram(p)
  \/ IsDiamondProgram(p)
  \/ IsPhiRunProgram(p)
  \/ IsDeclProgram(p)
  \/ IsCallProgram(p)
  \/ IsEntryProgram(p)

Init ==
  /\ InputProgram(prog)
  /\ pc = "declare"
  /\ error = "none"
  /\ fi = 1
  /\ module = RuntimeFuncs
  /\ funcs = <<>>
  /\ blocks = EmptyMap
  /\ order = <<>>
  /\ cur = NoBlock
  /\ fresh = 0
  /\ index = 0
  /\ last_instr = None
  /\ block_map = {}
  /\ added_timing = FALSE
  /\ ticks_start_ref = Void

Next ==
  \/ DeclareFunction
  \/ BeginFunction
  \/ SkipDeadCode
  \/ LowerPhiRun
  \/ LowerLabel
  \/ LowerInstruction
  \/ EndFunction
  \/ FinishModule

Spec == Init /\ [][Next]_vars

(***************************************************************************)
(* Execution of the built code of one function: the meaning of the target  *)
(* operations, used to state what the lowered code computes.  A value is   *)
(* an immediate, the address of a stack slot, or Undef (the content of a   *)
(* slot never stored to, the result of a call or of an operation whose     *)
(* value no statement here depends on).                                    *)
(***************************************************************************)
\* most operations one execution runs
ExecFuel == 40

Undef == <<"undef">>

Eval(v, regs, params) ==
  CASE v[1] = "imm" -> v
    [] v[1] = "slot" -> v
    [] v[1] = "param" -> params[v[2]]
    [] OTHER -> IF v \in DOMAIN regs THEN regs[v] ELSE Undef

ReadMem(mem, a) == IF a \in DOMAIN mem THEN mem[a] ELSE Undef

Stopped(how, mem) == [status |-> how, mem |-> mem]

RECURSIVE Exec(_, _, _, _, _, _, _, _)
\* run block b from its operation pos, entered from block prev
Exec(bs, params, b, prev, pos, mem, regs, fuel) ==
  IF fuel = 0 THEN Stopped("fuel", mem)
  ELSE IF b \notin DOMAIN bs \/ pos > Len(bs[b]) THEN Stopped("no terminator", mem)
  ELSE
    LET o == bs[b][pos]
        next(m, r) == Exec(bs, params, b, prev, pos + 1, m, r, fuel - 1)
        goto(t) == Exec(bs, params, t, b, 1, mem, regs, fuel - 1)
    IN  CASE o.op = "alloca" -> next(mem, regs)
          [] o.op = "store" ->
               LET a == Eval(o.ptr, regs, params)
               IN  IF a[1] # "slot" THEN Stopped("bad store", mem)
                   ELSE next((a :> Eval(o.val, regs, params)) @@ mem, regs)
          [] o.op = "load" ->
               LET a == Eval(o.ptr, regs, params)
               IN  IF a[1] # "slot" THEN Stopped("bad load", mem)
                   ELSE next(mem, (o.dst :> ReadMem(mem, a)) @@ regs)
          [] o.op = "phi" ->
               LET from == {k \in DOMAIN o.incoming : o.incoming[k][2] = prev}
               IN  IF from = {} THEN Stopped("bad phi", mem)
                   ELSE next(mem,
                             (o.dst :> Eval(o.incoming[CHOOSE k \in from : TRUE][1],
                                            regs, params)) @@ regs)
          [] o.op = "br" -> goto(o.target)
          [] o.op = "condbr" ->
               LET c == Eval(o.cond, regs, params)
               IN  IF c = Imm(1) THEN goto(o.then)
                   ELSE IF c = Imm(0) THEN goto(o.else)
                   ELSE Stopped("bad branch", mem)
          [] o.op = "ret" -> Stopped("ret", mem)
          [] o.op \in {"add", "sub", "mul", "sdiv"} ->
               LET lhs == Eval(o.lhs, regs, params)
                   rhs == Eval(o.rhs, regs, params)
               IN  IF lhs[1] # "imm" \/ rhs[1] # "imm"
                   THEN next(mem, (o.dst :> Undef) @@ regs)
                   ELSE IF o.op = "sdiv" /\ SDivUndefined(lhs[2], rhs[2])
                   THEN Stopped("undefined", mem)
                   ELSE next(mem,
                             (o.dst :> Imm(CASE o.op = "add" -> WAdd(lhs[2], rhs[2])
                                             [] o.op = "sub" -> WSub(lhs[2], rhs[2])
                                             [] o.op = "mul" -> WMul(lhs[2], rhs[2])
                                             [] o.op = "sdiv" -> WDiv(lhs[2], rhs[2])))
                             @@ regs)
          [] OTHER -> next(mem, (o.dst :> Undef) @@ regs)

\* the slots of function fn after its built code ran on params to a return
Run(fn, params) ==
  Exec(blocks, params, Block(fn, EntryLabel), NoBlock, 1, EmptyMap, EmptyMap, ExecFuel)

(***************************************************************************)
(* Properties.                                                             *)
(***************************************************************************)
\* exactly one terminator, and it is the last operation
WellTerminated(ops) ==
  /\ Len(ops) > 0
  /\ IsTerminator(ops[Len(ops)])
  /\ \A k \in 1..(Len(ops) - 1) : ~IsTerminator(ops[k])

\* the labels a jump, branch or phi of f refers to
ReferencedLabels(f) ==
  UNION {Range(f.instrs[k].labels) :
           k \in {j \in 1..Len(f.instrs) : IsInstruction(f.instrs[j])}}

DefinitionsOf(f, l) ==
  {k \in 1..Len(f.instrs) : IsLabel(f.instrs[k]) /\ f.instrs[k].labels[1] = l}

DefinedLabels(f) ==
  {f.instrs[k].labels[1] : k \in {j \in 1..Len(f.instrs) : IsLabel(f.instrs[j])}}

\* every referenced label is defined exactly once, and no label twice
LabelsWellFormed(f) ==
  \A l \in ReferencedLabels(f) \cup DefinedLabels(f) :
    Cardinality(DefinitionsOf(f, l)) = 1

BlocksOfFunction(k) == {b \in DOMAIN blocks : b[1] = k}

\* C1: with instrumentation disabled, when lowering completes, every block
\* of every function that has a non-empty instruction list whose labels
\* are well formed holds exactly one terminator, as its last operation.
\* (The precondition also rules out a label defined twice that nothing
\* refers to, so the violation owes nothing to such labels.)
C1_OneTerminatorPerBlock ==
  (pc = "done" /\ ~prog.add_timing) =>
    \A k \in 1..NumFuncs :
      (Functions[k].instrs # <<>> /\ LabelsWellFormed(Functions[k])) =>
        \A b \in BlocksOfFunction(k) : WellTerminated(blocks[b])


\* main = [nop] followed by an empty function g: the entry block of main
\* ends with two returns, the entry block of g is empty
C1_Failure ==
  /\ pc = "done"
  /\ prog = WalkProgram(4, <<Effect("nop", <<>>, <<>>, <<>>)>>)
  /\ LET ops == blocks[Block(1, EntryLabel)]
     IN  /\ Len(ops) >= 2
         /\ ops[Len(ops)] = OpRet(Void)
         /\ ops[Len(ops) - 1] = OpRet(Void)
  /\ blocks[Block(2, EntryLabel)] = <<>>

\* a step of the walk standing on an instruction behind a branch, jump or
\* return, with no label in between
AtDeadCode ==
  /\ pc = "walk"
  /\ is_terminating_instr(last_instr)
  /\ IsInstruction(CurInstrs[index + 1])

\* C2: an instruction between a branch/jump/return and the next label is
\* skipped: the step over it builds no operation anywhere, does not abort,
\* and leaves the block terminated by the original terminator.
C2_DeadCodeElided ==
  [][AtDeadCode =>
       /\ blocks' = blocks
       /\ last_instr' = last_instr
       /\ index' = index + 1
       /\ pc' # "abort"]_vars


\* main = [ret, print x] with instrumentation: the step over the dead
\* print left the tick operations behind the return
C2_Failure ==
  /\ prog = WalkProgram(2, <<Effect("ret", <<>>, <<>>, <<>>), Effect("print", <<"x">>, <<>>, <<>>)>>)
  /\ pc = "end"
  /\ LET ops == blocks[Block(1, EntryLabel)]
     IN  /\ ops[Len(ops)] = OpCall("_bril_eprintln_unsigned_int", <<Reg(3)>>, Void)
         /\ ops[Len(ops) - 3] = OpRet(Void)

\* the block a function's closing return belongs in: its entry block when
\* it has no instructions, else the block its walk ended in
OwnBlock == IF CurInstrs = <<>> THEN Block(fi, EntryLabel) ELSE cur

\* C3: for a function without return type whose instruction list ends
\* without a terminator (an empty list included), the end-of-function rule
\* appends one bare return to that function's own current block.
C3_ReturnInOwnBlock ==
  [][(pc = "end" /\ Functions[fi].return_type = "none"
        /\ ~is_terminating_instr(last_instr)) =>
       /\ cur[1] = fi
       /\ blocks' = Emit(blocks, OwnBlock, <<OpRet(Void)>>)]_vars


\* an empty function g followed by main = [nop]: when g is done its
\* return stands in the entry block of main, its own entry block is empty
C3_Failure ==
  /\ prog = WalkProgram(5, <<Effect("nop", <<>>, <<>>, <<>>)>>)
  /\ pc = "begin"
  /\ fi = 2
  /\ blocks[Block(1, EntryLabel)] = <<>>
  /\ LET ops == blocks[Block(2, EntryLabel)]
     IN  ops[Len(ops)] = OpRet(Void)

\* the value in variable n's slot of function fn when its code, run on
\* params, returned
SlotAfter(fn, params, n) ==
  LET r == Run(fn, params)
  IN  IF r.status = "ret" THEN ReadMem(r.mem, Slot(fn, n)) ELSE Undef

\* what a predecessor of the diamond left in operand o, having assigned v
\* to a and v + 10 to b
Assigned(o, v) == Imm(IF o = "a" THEN v ELSE v + 10)

\* C4: in the diamond, r = phi [o1, P1], [o2, P2] leaves in r's slot the
\* value the predecessor that transferred control assigned to its operand
\* (P1 when c is true, P2 when c is false), also when a and b are assigned
\* again behind the phi.
C4_PhiSelectsPredecessor ==
  pc = "done" =>
    \A o1 \in PhiVars, o2 \in PhiVars, v1 \in PhiVals, v2 \in PhiVals,
       after \in BOOLEAN :
      prog = DiamondProgram(o1, o2, v1, v2, after) =>
        /\ SlotAfter(1, <<Imm(1)>>, "r") = Assigned(o1, v1)
        /\ SlotAfter(1, <<Imm(0)>>, "r") = Assigned(o2, v2)

\* the claim's program is lowered (a = 1 in P1, a = 2 in P2, a written
\* again behind the phi) and running it through P1 leaves 1 in r
C4_Witness ==
  /\ pc = "done"
  /\ prog = DiamondProgram("a", "a", 1, 2, TRUE)
  /\ SlotAfter(1, <<Imm(1)>>, "r") = Imm(1)
  /\ SlotAfter(1, <<Imm(0)>>, "r") = Imm(2)

\* what P of the phi run program left in variable n
Left(n, v1, v2) == Imm(IF n = "x" THEN v1 ELSE v2)

\* C5: after the run d1 = phi [o1, P]; d2 = phi [o2, P] executed, d1 holds
\* what o1 held and d2 what o2 held when control left P, also when o2 is
\* d1 (the exchange of x and y).
C5_SimultaneousRead ==
  pc = "done" =>
    \A d1 \in RunVars, o1 \in RunVars, d2 \in RunVars, o2 \in RunVars,
       v1 \in PhiVals, v2 \in PhiVals :
      (d1 # d2 /\ prog = PhiRunProgram(d1, o1, d2, o2, v1, v2)) =>
        /\ SlotAfter(1, <<>>, d1) = Left(o1, v1, v2)
        /\ SlotAfter(1, <<>>, d2) = Left(o2, v1, v2)


\* x = 1, y = 2, then x = phi [y, P]; y = phi [x, P]: both hold 2
C5_Failure ==
  /\ pc = "done"
  /\ prog = PhiRunProgram("x", "y", "y", "x", 1, 2)
  /\ SlotAfter(1, <<>>, "x") = Imm(2)
  /\ SlotAfter(1, <<>>, "y") = Imm(2)

\* f declares one name with two types
HasConflict(f) ==
  \E i \in 1..Len(Decls(f)), j \in 1..Len(Decls(f)) :
    /\ Decls(f)[i].name = Decls(f)[j].name
    /\ Decls(f)[i].ty # Decls(f)[j].ty

\* f declares one name twice with one type
Redeclares(f) ==
  \E i \in 1..Len(Decls(f)), j \in 1..Len(Decls(f)) :
    /\ i # j
    /\ Decls(f)[i].name = Decls(f)[j].name
    /\ Decls(f)[i].ty = Decls(f)[j].ty

\* nothing but the first phase's stack slots and parameter stores is built
NoBodyLowered ==
  /\ DOMAIN blocks = {Block(k, EntryLabel) : k \in 1..Len(funcs)}
  /\ \A b \in DOMAIN blocks : \A k \in 1..Len(blocks[b]) :
       \/ blocks[b][k].op = "alloca"
       \/ blocks[b][k].op = "store" /\ blocks[b][k].val[1] = "param"

\* C6: a function that declares a name with two types is never declared:
\* the pass aborts with TypeConflict on it in the first phase, with no
\* body of any function lowered; and TypeConflict is raised on nothing
\* else, so a second declaration with the same type does not fail.
C6_TypeConflictAtDeclaration ==
  /\ \A k \in 1..Len(funcs) : ~HasConflict(Functions[k])
  /\ error = "TypeConflict" =>
       /\ pc = "abort"
       /\ HasConflict(Functions[fi])
       /\ Len(funcs) = fi - 1
       /\ NoBodyLowered

\* the second function of a program conflicts: the pass stopped there,
\* the first function (which declares x again with one type) declared
C6_Witness ==
  /\ pc = "abort"
  /\ error = "TypeConflict"
  /\ fi = 2
  /\ Len(funcs) = 1
  /\ Redeclares(Functions[1])
  /\ HasConflict(Functions[2])

\* the instruction list ends with a print, or with a print and a return
EndsWithPrint(instrs) ==
  LET n == Len(instrs)
  IN  \/ n >= 1 /\ IsPrint(instrs[n])
      \/ n >= 2 /\ IsReturn(instrs[n]) /\ IsPrint(instrs[n - 1])

\* the last effect instruction of the list is a print, or a return with a
\* print as the effect before it (labels, constants and values set aside)
FinalEffectIsPrint(instrs) ==
  EndsWithPrint(SelectSeq(instrs, LAMBDA c : c.kind = "effect"))

\* C7: with instrumentation requested, a program whose entry function
\* does not end in a print (optionally followed by a return), on either
\* reading of "final effect", is never lowered to a module.
C7_PlacementRejected ==
  (/\ prog.add_timing
   /\ HasSourceMain
   /\ ~EndsWithPrint(SourceMain.instrs)
   /\ ~FinalEffectIsPrint(SourceMain.instrs)) => pc # "done"


\* main = [print x, ret, ret] with instrumentation is lowered to a module
C7_Failure ==
  /\ pc = "done"
  /\ prog = WalkProgram(2, <<Effect("print", <<"x">>, <<>>, <<>>), Effect("ret", <<>>, <<>>, <<>>), Effect("ret", <<>>, <<>>, <<>>)>>)
  /\ added_timing

\* the first phase is over
Lowering == pc \in {"begin", "walk", "end", "finish", "done"}

IsCall(c) == c.kind \in {"value", "effect"} /\ c.op = "call"

SourceNames == {Functions[k].name : k \in 1..NumFuncs}

\* the operations of every block of function k, in the order of the blocks
CallsBuiltIn(k) ==
  {o \in UNION {Range(blocks[b]) : b \in BlocksOfFunction(k)} : o.op = "call"}

\* C8: while the first phase runs no body is lowered, and when it is over
\* every function of the program is declared in the module; so the lookup
\* of a call's callee fails only for a name that is no function of the
\* program, and a lowered call to a function of the program, wherever
\* that function stands in the program, is a call of the module function
\* of the callee's name.
C8_DeclaredBeforeLowered ==
  /\ pc = "declare" => NoBodyLowered
  /\ Lowering =>
       /\ Len(funcs) = NumFuncs
       /\ \A k \in 1..NumFuncs : FuncName(Functions[k].name) \in module
  /\ error = "UnresolvedCallee" =>
       /\ IsCall(CurInstrs[index + 1])
       /\ CurInstrs[index + 1].funcs[1] \notin SourceNames
  /\ pc = "done" =>
       \A k \in 1..NumFuncs : \A j \in 1..Len(Functions[k].instrs) :
         LET c == Functions[k].instrs[j]
         IN  (IsCall(c) /\ c.funcs[1] \in SourceNames) =>
               \E o \in CallsBuiltIn(k) : o.callee = FuncName(c.funcs[1])

\* two functions calling each other are lowered: the first one's call
\* names a function defined later
C8_Witness ==
  /\ pc = "done"
  /\ prog = Program(<<Caller("f", "none", FALSE, "main"),
                      Caller("main", "none", FALSE, "f")>>, FALSE)
  /\ \E o \in CallsBuiltIn(1) : o.callee = "_main"
  /\ \E o \in CallsBuiltIn(2) : o.callee = "f"

\* C9: the returned module declares each source function under its own
\* name, main under _main, and besides them and the runtime's functions
\* only the synthesized main; a call naming main is a call of _main.
C9_OneFunctionPerSource ==
  pc = "done" =>
    /\ \A k \in 1..NumFuncs : funcs[k].llvm_func = FuncName(Functions[k].name)
    /\ module = RuntimeFuncs \cup {FuncName(n) : n \in SourceNames} \cup {"main"}
    /\ Cardinality(module \ RuntimeFuncs) = NumFuncs + 1
    /\ \A k \in 1..NumFuncs : \A j \in 1..Len(Functions[k].instrs) :
         LET c == Functions[k].instrs[j]
         IN  (IsCall(c) /\ c.funcs[1] = "main") =>
               \E o \in CallsBuiltIn(k) : o.callee = "_main"


\* main followed by a function named _main: the latter is declared as
\* _main.1
C9_Failure ==
  /\ pc = "done"
  /\ prog = EntryProgram(2, <<>>, 0)
  /\ funcs[1].llvm_func = "_main"
  /\ funcs[2].llvm_func = "_main.1"

Parseable(args) ==
  \A k \in 1..Len(args) : args[k].arg_type \in {"int", "bool", "float"}

\* what the claim has the entry point do for argument i (0-based)
ParseStep(fn, args, i) ==
  LET a == args[i + 1]
  IN  <<OpAlloca(Slot(fn, a.name), a.arg_type),
        OpArgv(Tmp("load arg", i), i + 1),
        OpCall(ParserOf(a.arg_type), <<Tmp("load arg", i)>>, Tmp("parse", i)),
        OpStore(Slot(fn, a.name), Tmp("parse", i))>>

\* the entry block the claim describes for a main with arguments args,
\* the loads of the call named from fresh variable fr on
ExpectedEntry(fn, args, fr) ==
  LET n == Len(args)
      steps == [j \in 1..(4 * n) |->
                  ParseStep(fn, args, (j - 1) \div 4)[((j - 1) % 4) + 1]]
      loads == [k \in 1..n |->
                  OpLoad(Reg(fr + k - 1), Slot(fn, args[k].name), args[k].arg_type)]
      vals == [k \in 1..n |-> Reg(fr + k - 1)]
  IN  steps \o loads
      \o <<OpCall("_main", vals, Tmp("call main", 0)), OpRet(Imm(0))>>

\* C10: when the program has a function main whose arguments are of type
\* int, bool or float, the entry point is built, and its block is: per
\* argument in order the load of argv[i + 1], the parse by the argument's
\* type and the store into its slot; then one call of _main with the n
\* values in order; then the return of 0.
C10_EntryPoint ==
  [][(/\ pc = "finish"
      /\ HasSourceMain
      /\ Parseable(SourceMain.args)
      /\ ~(prog.add_timing /\ ~added_timing)) =>
       /\ pc' = "done"
       /\ blocks'[Block(NumFuncs + 1, EntryLabel)]
            = ExpectedEntry(NumFuncs + 1, SourceMain.args, fresh + 1)]_vars


\* _main(a1: int) followed by main(): the entry point indexes the
\* arguments of main by the parameters of the module's _main
C10_Failure ==
  /\ pc = "abort"
  /\ error = "IndexOutOfBounds"
  /\ prog = EntryProgram(3, <<>>, 1)
  /\ funcs[1].llvm_func = "_main"

\* the walk stands on a print that is not dead code
AtPrint ==
  /\ pc = "walk"
  /\ ~is_terminating_instr(last_instr)
  /\ IsPrint(CurInstrs[index + 1])

\* the operations a step appended to the builder's block
Appended == SubSeq(blocks'[cur], Len(blocks[cur]) + 1, Len(blocks'[cur]))

LoadsAndCalls(ops) == SelectSeq(ops, LAMBDA o : o.op \in {"load", "call"})

PrintPrimitive(t) ==
  CASE t = "int" -> "_bril_print_int"
    [] t = "bool" -> "_bril_print_bool"
    [] t = "float" -> "_bril_print_float"
    [] OTHER -> "no primitive"

\* ops is the loads and calls of a print of args: per argument its load and
\* the call of its type's primitive on the loaded value (or its cast), a
\* separator behind every argument but the last, and the line end
IsPrintOf(ops, h, args) ==
  LET n == Len(args)
  IN  /\ Len(ops) = (IF n = 0 THEN 1 ELSE 3 * n)
      /\ ops[Len(ops)].callee = "_bril_print_end"
      /\ \A k \in 1..n :
           LET ld == ops[3 * k - 2]
               call == ops[3 * k - 1]
           IN  /\ ld.op = "load"
               /\ ld.ptr = h[args[k]].ptr
               /\ ld.ty = h[args[k]].ty
               /\ call.op = "call"
               /\ call.callee = PrintPrimitive(h[args[k]].ty)
               /\ Len(call.args) = 1
               /\ call.args[1] = ld.dst \/ call.args[1][1] = "tmp"
               /\ k < n => ops[3 * k].op = "call" /\ ops[3 * k].callee = "_bril_print_sep"
      /\ Cardinality({j \in 1..Len(ops) :
                        ops[j].op = "call" /\ ops[j].callee = "_bril_print_sep"})
           = (IF n = 0 THEN 0 ELSE n - 1)
      /\ Cardinality({j \in 1..Len(ops) :
                        ops[j].op = "call" /\ ops[j].callee = "_bril_print_end"}) = 1

\* C11: the step that lowers a print of declared variables aborts when an
\* argument is pointer-typed; otherwise the loads and calls it appends are,
\* in argument order, each argument's load and the call of the primitive
\* of its slot's type, n - 1 separators between them, and one line end as
\* the last operation (behind the instrumentation's two calls, if any).
C11_PrintLowering ==
  [][(AtPrint /\ \A k \in 1..Len(CurInstrs[index + 1].args) :
                   HeapHas(CurHeap, CurInstrs[index + 1].args[k])) =>
       LET args == CurInstrs[index + 1].args
           pointer == \E k \in 1..Len(args) : CurHeap[args[k]].ty = "ptr"
           timed == TimingApplies(prog.add_timing, CurName, CurInstrs, index)
           lc == LoadsAndCalls(Appended)
       IN  /\ pointer => pc' = "abort"
           /\ (pointer /\ ~timed) => error' = "PrintPointer"
           /\ (~pointer /\ ~timed) => pc' # "abort"
           /\ pc' # "abort" =>
                /\ Appended[Len(Appended)].callee = "_bril_print_end"
                /\ IsPrintOf(SubSeq(lc, (IF timed THEN 3 ELSE 1), Len(lc)),
                             CurHeap, args)]_vars

\* a print of an int, a bool and a float is lowered: three loads, the
\* three primitives, two separators, one line end
C11_Witness ==
  /\ pc = "done"
  /\ prog = PrintProgram(<<"i", "b", "f">>)
  /\ LET lc == LoadsAndCalls(blocks[Block(1, EntryLabel)])
     IN  /\ Len(lc) = 9
         /\ lc[2].callee = "_bril_print_int"
         /\ lc[5].callee = "_bril_print_bool"
         /\ lc[8].callee = "_bril_print_float"
         /\ lc[9].callee = "_bril_print_end"

\* the walk stands on a call that is not dead code
AtCall ==
  /\ pc = "walk"
  /\ ~is_terminating_instr(last_instr)
  /\ IsCall(CurInstrs[index + 1])

\* C12: the step that lowers a call whose callee, main renamed to _main,
\* is no function of the module aborts the pass with UnresolvedCallee and
\* builds nothing.
C12_UnresolvedCallee ==
  [][(AtCall /\ FuncName(CurInstrs[index + 1].funcs[1]) \notin module) =>
       /\ pc' = "abort"
       /\ error' = "UnresolvedCallee"
       /\ blocks' = blocks]_vars

\* f alone calls main, which is renamed to _main and is no function of
\* the module: the pass aborted on the call
C12_Witness ==
  /\ pc = "abort"
  /\ error = "UnresolvedCallee"
  /\ prog = Program(<<Caller("f", "none", TRUE, "main")>>, FALSE)
  /\ "_main" \notin module
  /\ index = 1

\* the places (block, position) of the operations built so far
Places == UNION {{<<b, k>> : k \in 1..Len(blocks[b])} : b \in DOMAIN blocks}

\* those that define a value named by fresh_var
VarDefinitions ==
  {d \in Places :
     /\ blocks[d[1]][d[2]].op \in {"load", "phi", "call", "add", "sub", "mul", "sdiv"}
     /\ blocks[d[1]][d[2]].dst[1] = "reg"}

VarNames == {blocks[d[1]][d[2]].dst : d \in VarDefinitions}

\* the blocks named by fresh_label: the entry blocks
FreshLabelled == {b \in DOMAIN blocks : b[2] = EntryLabel}

\* C13: the counter never decreases; no two operations built during the
\* run, in whatever functions, define the same fresh variable, and every
\* one is numbered below the counter; and while the pass has not aborted
\* the counter is the number of names produced so far, labels and
\* variables together (one step of the counter per name).
C13_FreshNamesDistinct ==
  [][/\ fresh' >= fresh
     /\ (Cardinality(VarNames) = Cardinality(VarDefinitions))'
     /\ (\A v \in VarNames : v[2] < fresh)'
     /\ (pc # "abort" =>
           fresh = Cardinality(FreshLabelled) + Cardinality(VarNames))']_vars

\* two functions calling each other are lowered: two labels and the two
\* calls' names, then the entry point's label
C13_Witness ==
  /\ pc = "done"
  /\ NumFuncs = 2
  /\ Cardinality(VarNames) >= 2
  /\ \E d \in VarDefinitions, e \in VarDefinitions : d[1][1] = 1 /\ e[1][1] = 2
  /\ fresh = 3 + Cardinality(VarNames)

\* the type of the first declaration of name n in f
FirstType(f, n) ==
  Decls(f)[CHOOSE i \in 1..Len(Decls(f)) :
             /\ Decls(f)[i].name = n
             /\ \A j \in 1..(i - 1) : Decls(f)[j].name # n].ty

\* the places where storage is allocated at slot p
Allocations(p) ==
  {d \in Places : blocks[d[1]][d[2]].op = "alloca" /\ blocks[d[1]][d[2]].ptr = p}

\* the store of declared function k holds exactly the declared names of
\* the function, each with the type of its first declaration and a slot
\* allocated exactly once
StoreSound(k) ==
  LET f == Functions[k]
      h == funcs[k].heap
  IN  /\ DOMAIN h = {Decls(f)[i].name : i \in 1..Len(Decls(f))}
      /\ \A n \in DOMAIN h :
           /\ h[n].ty = FirstType(f, n)
           /\ Cardinality(Allocations(h[n].ptr)) = 1
      /\ \A n \in DOMAIN h, m \in DOMAIN h : n # m => h[n].ptr # h[m].ptr

\* C14: a function's store, once built, never changes for the rest of the
\* run (no entry removed, no slot or type replaced); it holds each
\* declared name with the type of its first declaration and one slot,
\* allocated once however often the name is declared again; and every
\* load the lowering of the function builds for a variable reads that
\* slot with that type.
C14_StoreStable ==
  [][/\ \A k \in 1..Len(funcs) :
          Len(funcs') >= k /\ funcs'[k].heap = funcs[k].heap
     /\ (\A k \in 1..Len(funcs) : StoreSound(k))'
     /\ (\A d \in Places :
           LET o == blocks[d[1]][d[2]]
               k == d[1][1]
           IN  (o.op = "load" /\ k <= Len(funcs) /\ o.ptr[1] = "slot") =>
                 \E n \in DOMAIN funcs[k].heap :
                   o.ptr = funcs[k].heap[n].ptr /\ o.ty = funcs[k].heap[n].ty)']_vars

\* g(x: int) { x: int = const 1; } is declared and lowered: x is declared
\* twice with one type and allocated once
C14_Witness ==
  /\ pc = "done"
  /\ Functions[1].name = "g"
  /\ Redeclares(Functions[1])
  /\ Cardinality(Allocations(funcs[1].heap["x"].ptr)) = 1
  /\ \E d \in Places :
       blocks[d[1]][d[2]] = OpStore(funcs[1].heap["x"].ptr, Imm(1))

\* how often block b was appended to its function
TimesAppended(b) == Cardinality({k \in 1..Len(order) : order[k] = b})

\* the blocks the operations of block b jump to, branch to or take a phi
\* edge from
Targets(b) ==
  UNION {LET o == blocks[b][k]
         IN  CASE o.op = "br" -> {o.target}
               [] o.op = "condbr" -> {o.then, o.else}
               [] o.op = "phi" -> {o.incoming[j][2] : j \in DOMAIN o.incoming}
               [] OTHER -> {}
         : k \in 1..Len(blocks[b])}

\* C15: every block is appended once, so a function has one block per
\* label; while a function is walked its registry holds exactly the labels
\* that have a block in it; the step that reaches the definition of a
\* label makes the label's one block current, appending it only if no
\* earlier jump, branch or phi created it; and every jump, branch and phi
\* edge built targets a block that exists, appended once, in the function
\* the operation stands in.
C15_OneBlockPerLabel ==
  [][/\ (\A b \in DOMAIN blocks : TimesAppended(b) = 1)'
     /\ (Range(order) = DOMAIN blocks)'
     /\ (pc \in {"walk", "end"} =>
           block_map = {b[2] : b \in BlocksOfFunction(fi)} \ {EntryLabel})'
     /\ (pc = "walk" /\ IsLabel(CurInstrs[index + 1])) =>
          LET l == CurInstrs[index + 1].labels[1]
          IN  /\ cur' = Block(fi, l)
              /\ order' = IF l \in block_map THEN order
                          ELSE Append(order, Block(fi, l))
     /\ (\A b \in DOMAIN blocks : \A t \in Targets(b) :
           /\ t \in DOMAIN blocks
           /\ t[1] = b[1]
           /\ TimesAppended(t) = 1)']_vars

\* jmp A; A: jmp A is lowered: the jump before the definition and the
\* jump after it are jumps to the one block of A
C15_Witness ==
  /\ pc = "done"
  /\ prog = WalkProgram(1, <<Effect("jmp", <<>>, <<"A">>, <<>>), Label("A"),
                             Effect("jmp", <<>>, <<"A">>, <<>>)>>)
  /\ order = <<Block(1, EntryLabel), Block(1, "A"), Block(2, EntryLabel)>>
  /\ Targets(Block(1, EntryLabel)) = {Block(1, "A")}
  /\ blocks[Block(1, "A")] = <<OpBr(Block(1, "A"))>>

\* the stack slots the operations of block b allocate, read or write
SlotsUsed(b) ==
  UNION {LET o == blocks[b][k]
         IN  CASE o.op \in {"alloca", "store", "load"} ->
                    IF o.ptr[1] = "slot" THEN {o.ptr} ELSE {}
               [] o.op = "phi" -> {o.incoming[j][1] : j \in DOMAIN o.incoming}
               [] OTHER -> {}
         : k \in 1..Len(blocks[b])}

SlotsOf(k) == {funcs[k].heap[n].ptr : n \in DOMAIN funcs[k].heap}

\* C16: the stores of two functions share no slot, and each slot of a
\* function's store is allocated in that function's entry block; the
\* operations in the blocks of a function use slots of that function's
\* store only and target blocks of that function only; and the registry
\* of the function being walked holds no label that has no block in it.
C16_PerFunctionStores ==
  [][(/\ \A j \in 1..Len(funcs), k \in 1..Len(funcs) :
           j # k => SlotsOf(j) \cap SlotsOf(k) = {}
      /\ \A k \in 1..Len(funcs) : \A p \in SlotsOf(k) : \A d \in Allocations(p) :
           d[1] = Block(k, EntryLabel)
      /\ \A b \in DOMAIN blocks :
           /\ b[1] <= Len(funcs) => SlotsUsed(b) \subseteq SlotsOf(b[1])
           /\ \A t \in Targets(b) : t[1] = b[1]
      /\ pc \in {"walk", "end"} =>
           \A l \in block_map : Block(fi, l) \in DOMAIN blocks)']_vars

\* g and main both use x and the label A: two slots, two blocks, each in
\* its function
C16_Witness ==
  /\ pc = "done"
  /\ prog = WalkProgram(7, <<Label("A"), Constant("x", "int", 1)>>)
  /\ funcs[1].heap["x"].ptr # funcs[2].heap["x"].ptr
  /\ blocks[Block(1, "A")] = <<OpStore(funcs[1].heap["x"].ptr, Imm(1)), OpRet(Void)>>
  /\ blocks[Block(2, "A")] = <<OpStore(funcs[2].heap["x"].ptr, Imm(1)), OpRet(Void)>>

\* the blocks some lowered jump, branch or phi of the module refers to
\* under a label its function never defines
NeverFilled ==
  {t \in UNION {Targets(b) : b \in DOMAIN blocks} :
     t[2] \notin DefinedLabels(Functions[t[1]])}

\* C17: a module is returned only if no lowered jump, branch or phi refers
\* to a label its function never defines.
C17_UndefinedLabelRejected == pc = "done" => NeverFilled = {}

\* main: jmp A, with no label A: the module is returned with the block A
\* created by the jump and left empty
C17_Failure ==
  /\ pc = "done"
  /\ error = "none"
  /\ prog = WalkProgram(1, <<Effect("jmp", <<>>, <<"A">>, <<>>)>>)
  /\ LET ops == blocks[Block(1, EntryLabel)]
     IN  ops[Len(ops)] = OpBr(Block(1, "A"))
  /\ blocks[Block(1, "A")] = <<>>
  /\ TimesAppended(Block(1, "A")) = 1

\* the variables the lowering of instruction i loads
Reads(i) ==
  CASE i.kind = "value" -> Range(i.args)
    [] i.kind = "effect" /\ i.op \in {"print", "call", "br"} -> Range(i.args)
    [] i.kind = "effect" /\ i.op = "ret" ->
         IF i.args = <<>> THEN {} ELSE {i.args[1]}
    [] OTHER -> {}

\* the arguments of f and the destinations of its Constant and Value
\* instructions
DeclaredNames(f) ==
  {f.args[k].name : k \in 1..Len(f.args)}
    \cup {f.instrs[k].dest :
            k \in {j \in 1..Len(f.instrs) : f.instrs[j].kind \in {"const", "value"}}}

Undeclared(f, i) == Reads(i) \ DeclaredNames(f)

\* the instructions of f that read a variable f does not declare
UndeclaredReads(f) ==
  {k \in 1..Len(f.instrs) :
     IsInstruction(f.instrs[k]) /\ Undeclared(f, f.instrs[k]) # {}}

\* a check the step makes before the load of the undeclared variable
\* fails: the callee of a call, the placement of an instrumented print, a
\* pointer among the print's earlier arguments
Preempted(i) ==
  \/ /\ error' = "UnresolvedCallee"
     /\ IsCall(i)
     /\ FuncName(i.funcs[1]) \notin module
  \/ /\ error' = "InstrumentationPlacement"
     /\ TimingApplies(prog.add_timing, CurName, CurInstrs, index)
  \/ /\ error' = "PrintPointer"
     /\ IsPrint(i)
     /\ \E k \in 1..Len(i.args) :
          /\ \A j \in 1..k : HeapHas(CurHeap, i.args[j])
          /\ CurHeap[i.args[k]].ty = "ptr"

\* C18 (original): a module is returned only if no function contains an
\* instruction that reads a variable the function does not declare.
C18_EveryUndeclaredReadAborts ==
  pc = "done" => \A k \in 1..NumFuncs : UndeclaredReads(Functions[k]) = {}

\* C18 (amended): the step of the walk that lowers, outside dead code, an
\* instruction or a run of phis reading a variable that is neither an
\* argument nor a Constant or Value destination of the function aborts the
\* pass, with UndeclaredVariable unless an earlier check of the same step
\* fails first; the step over such an instruction in dead code does not
\* abort with UndeclaredVariable.
C18_LoweredUndeclaredReadAborts ==
  [][pc = "walk" =>
       LET i == CurInstrs[index + 1]
           f == Functions[fi]
           live == ~is_terminating_instr(last_instr)
       IN  /\ (live /\ IsInstruction(i) /\ ~is_phi(i) /\ Undeclared(f, i) # {}) =>
                /\ pc' = "abort"
                /\ error' = "UndeclaredVariable" \/ Preempted(i)
           /\ (live /\ is_phi(i)
                 /\ \E k \in (index + 1)..PhiRunEnd(CurInstrs, index) :
                      Undeclared(f, CurInstrs[k]) # {}) =>
                /\ pc' = "abort"
                /\ error' = "UndeclaredVariable"
           /\ (~live /\ IsInstruction(i)) => error' # "UndeclaredVariable"]_vars

\* main: print y, where nothing declares y
C18_Witness ==
  /\ pc = "abort"
  /\ error = "UndeclaredVariable"
  /\ prog = ScopeProgram("main", <<Effect("print", <<"y">>, <<>>, <<>>)>>, FALSE)
  /\ index = 0

\* main: ret; print y: the print is dead code and the module is returned
C18_DeadRead ==
  /\ pc = "done"
  /\ error = "none"
  /\ prog = ScopeProgram("main", <<Effect("ret", <<>>, <<>>, <<>>),
                           Effect("print", <<"y">>, <<>>, <<>>)>>, FALSE)

\* C19: no step of the lowering of a function in which every variable an
\* instruction or phi reads is an argument or the destination of a Constant
\* or Value instruction anywhere in the function fails with
\* UndeclaredVariable. (The steps are those of the function's body; the
\* synthesis of the entry point is not the lowering of a function.)
C19_DeclaredReadsNeverFail ==
  [][(pc \in {"begin", "walk", "end"} /\ UndeclaredReads(Functions[fi]) = {})
       => error' # "UndeclaredVariable"]_vars

\* main: print y; y = const 1: y is read before the constant that declares
\* it is lowered
C19_Witness ==
  /\ pc = "done"
  /\ error = "none"
  /\ prog = ScopeProgram("main", <<Effect("print", <<"y">>, <<>>, <<>>),
                           Constant("y", "int", 1)>>, FALSE)
  /\ \E k \in 1..Len(blocks[Block(1, EntryLabel)]) :
       LET o == blocks[Block(1, EntryLabel)][k]
       IN  o.op = "load" /\ o.ptr = Slot(1, "y")

\* what running function fn can end in: where its code reaches an undefined
\* sdiv the machine may trap there, or go on with any quotient
Outcomes(fn, dest) ==
  LET r == Run(fn, <<>>)
  IN  IF r.status = "undefined"
      THEN {Stopped("trap", r.mem)}
             \cup {Stopped("ret", (dest :> Imm(w)) @@ r.mem) : w \in Boundary}
      ELSE {r}

\* the 64-bit two's-complement result of o on a and b
Wrapped(o, a, b) ==
  CASE o = "add" -> WAdd(a, b)
    [] o = "sub" -> WSub(a, b)
    [] o = "mul" -> WMul(a, b)
    [] o = "div" -> WDiv(a, b)

\* every run of the code built for r = o a b ends with Wrapped(o, a, b) in
\* the slot of r
StoresWrapped(o, a, b) ==
  \A out \in Outcomes(1, Slot(1, "r")) :
    /\ out.status = "ret"
    /\ ReadMem(out.mem, Slot(1, "r")) = Imm(Wrapped(o, a, b))

\* C20: for add, sub, mul and signed div and every pair of operands with a
\* quotient (a divisor other than zero), the boundary values included, the
\* code built for r = op a b leaves the 64-bit two's-complement result of
\* the operation in the slot of r.
C20_TwosComplementResult ==
  pc = "done" =>
    \A o \in ArithOps : \A a \in Boundary, b \in Boundary :
      (prog = ArithProgram(o, a, b) /\ ~(o = "div" /\ b = WordOf(0)))
        => StoresWrapped(o, a, b)

\* f: r = div a b with a the least i64 and b = -1: the code built is an
\* sdiv of the two loaded values, which is undefined for them; the
\* two's-complement quotient would be the least i64
C20_Failure ==
  /\ pc = "done"
  /\ prog = ArithProgram("div", MinWord, WordOf(0 - 1))
  /\ \E k \in 1..Len(blocks[Block(1, EntryLabel)]) :
       blocks[Block(1, EntryLabel)][k].op = "sdiv"
  /\ Run(1, <<>>).status = "undefined"
  /\ Wrapped("div", MinWord, WordOf(0 - 1)) = MinWord

\* add, sub and mul of the same operands do wrap
C20_AddSubMulWrap ==
  pc = "done" =>
    \A o \in ArithOps \ {"div"} : \A a \in Boundary, b \in Boundary :
      prog = ArithProgram(o, a, b) => StoresWrapped(o, a, b)

\* the greatest i64 plus 1 is the least
C20_MaxPlusOne ==
  /\ pc = "done"
  /\ prog = ArithProgram("add", MaxWord, WordOf(1))
  /\ ReadMem(Run(1, <<>>).mem, Slot(1, "r")) = Imm(MinWord)

AtLabel ==
  /\ pc = "walk"
  /\ IsLabel(CurInstrs[index + 1])

\* the code items between the label before instrs[idx + 1] (or the start of
\* the list) and instrs[idx + 1]
SinceLabel(instrs, idx) ==
  {k \in 1..idx : \A j \in k..idx : ~IsLabel(instrs[j])}

\* one of them is a branch, jump or return: the first such is lowered, so
\* the block it went to ends with it
EndedSinceLabel(instrs, idx) ==
  \E k \in SinceLabel(instrs, idx) :
    instrs[k].kind = "effect" /\ instrs[k].op \in {"br", "jmp", "ret"}

\* C21: the step of the walk on a label appends to the current block the
\* unconditional jump into the label's block if, and only if, no branch,
\* jump or return was lowered into the current block since the label
\* before (or the start of the function); it appends nothing else
\* anywhere, never aborts, makes the label's block current and resets the
\* last-instruction record.
C21_ImplicitFallthrough ==
  [][AtLabel =>
       LET l == CurInstrs[index + 1].labels[1]
           b == Block(fi, l)
       IN  /\ pc' # "abort"
           /\ Appended = IF EndedSinceLabel(CurInstrs, index)
                         THEN <<>> ELSE <<OpBr(b)>>
           /\ \A o \in DOMAIN blocks : o # cur => blocks'[o] = blocks[o]
           /\ \A o \in DOMAIN blocks' \ DOMAIN blocks : o = b /\ blocks'[o] = <<>>
           /\ cur' = b
           /\ last_instr' = None
           /\ index' = index + 1]_vars

\* main: a run of one phi, then the label A: the phi does not end the entry
\* block, which falls through into A
C21_Witness ==
  /\ prog = WalkProgram(1, <<Value("phi", "x", "int", <<"x">>, <<"A">>, <<>>),
                             Label("A")>>)
  /\ index = 2
  /\ cur = Block(1, "A")
  /\ last_instr = None
  /\ LET ops == blocks[Block(1, EntryLabel)]
     IN  ops[Len(ops)] = OpBr(Block(1, "A"))

AtPhiRun ==
  /\ pc = "walk"
  /\ ~is_terminating_instr(last_instr)
  /\ is_phi(CurInstrs[index + 1])

\* the number of consecutive phis of instrs from instrs[idx + 1] on
RunLength(instrs, idx) ==
  Cardinality({k \in (idx + 1)..Len(instrs) :
                 \A j \in (idx + 1)..k : is_phi(instrs[j])})

\* the (slot of the argument, block of the label) pairs of the phi i
IncomingOf(i, h, fn) ==
  [j \in 1..Min(Len(i.args), Len(i.labels)) |->
     <<h[i.args[j]].ptr, Block(fn, i.labels[j])>>]

\* C22: the step of the walk on a phi that is not dead code stands at the
\* start of a maximal run of k phis and, unless it aborts, appends to the
\* current block exactly: the k phi nodes in source order, the i-th with
\* one incoming (slot of the argument, block of the label) pair per
\* (argument, label) pair of the i-th phi; then, in the same order, for
\* each phi the load through its node and the store of the loaded value
\* into the slot of its destination; and it moves the index over the run.
C22_PhiRunShape ==
  [][(AtPhiRun /\ pc' # "abort") =>
       LET k == RunLength(CurInstrs, index)
           ops == Appended
       IN  /\ index = 0 \/ ~is_phi(CurInstrs[index])
           /\ index' = index + k
           /\ Len(ops) = 3 * k
           /\ \A n \in 1..k :
                LET i == CurInstrs[index + n]
                    phi == ops[n]
                    load == ops[k + 2 * n - 1]
                    store == ops[k + 2 * n]
                IN  /\ phi.op = "phi"
                    /\ phi.incoming = IncomingOf(i, CurHeap, fi)
                    /\ load = OpLoad(load.dst, phi.dst, i.ty)
                    /\ store = OpStore(CurHeap[i.dest].ptr, load.dst)]_vars

\* main: A: two phis: two nodes, then two load and store pairs
C22_Witness ==
  /\ prog = WalkProgram(1, <<Label("A"),
                             Value("phi", "x", "int", <<"x">>, <<"A">>, <<>>),
                             Value("phi", "x", "int", <<"x">>, <<"A">>, <<>>)>>)
  /\ index = 3
  /\ pc # "abort"
  /\ LET ops == blocks[Block(1, "A")]
     IN  /\ Len(ops) >= 6
         /\ [k \in 1..6 |-> ops[k].op]
              = <<"phi", "phi", "load", "store", "load", "store">>
         /\ ops[3].ptr = ops[1].dst
         /\ ops[5].ptr = ops[2].dst

AtPhi ==
  /\ pc = "walk"
  /\ is_phi(CurInstrs[index + 1])

\* C23: build_instruction answers a phi with the fatal MisplacedPhi, and
\* the walk never hands it one: the step on a phi either skips it as dead
\* code, by one, or consumes the whole run it starts through the two phi
\* loops, leaving its last phi as the last instruction; neither ends in
\* MisplacedPhi.
C23_PhiNeverDispatched ==
  [][AtPhi =>
       /\ build_instruction(CurInstrs[index + 1], CurHeap, module, Functions,
                            funcs, fi, fresh).err = "MisplacedPhi"
       /\ error' # "MisplacedPhi"
       /\ is_terminating_instr(last_instr) =>
            /\ index' = index + 1
            /\ last_instr' = last_instr
            /\ \A b \in DOMAIN blocks :
                 \A k \in 1..Len(blocks'[b]) : blocks'[b][k].op # "phi"
                   \/ (k <= Len(blocks[b]) /\ blocks'[b][k] = blocks[b][k])
       /\ (~is_terminating_instr(last_instr) /\ pc' # "abort") =>
            /\ index' = index + RunLength(CurInstrs, index)
            /\ index' > index
            /\ last_instr' = CurInstrs[index']
            /\ Cardinality({k \in 1..Len(Appended) : Appended[k].op = "phi"})
                 = RunLength(CurInstrs, index)]_vars

\* main: phi; ret; phi: the first phi went through the phi loops, the
\* second was skipped, and the module is returned
C23_Witness ==
  /\ pc = "done"
  /\ error = "none"
  /\ prog = WalkProgram(1, <<Value("phi", "x", "int", <<"x">>, <<"A">>, <<>>),
                             Effect("ret", <<>>, <<>>, <<>>),
                             Value("phi", "x", "int", <<"x">>, <<"A">>, <<>>)>>)
  /\ Cardinality({k \in 1..Len(blocks[Block(1, EntryLabel)]) :
                    blocks[Block(1, EntryLabel)][k].op = "phi"}) = 1

\* the walk of a function with a return type is over and left its last
\* block open: no branch, jump or return was lowered since the last label
AtOpenEnd ==
  /\ pc = "end"
  /\ Functions[fi].return_type # "none"
  /\ ~EndedSinceLabel(CurInstrs, Len(CurInstrs))

\* the labels the walk of the current function gave a block
Registered == {b[2] : b \in BlocksOfFunction(fi)} \ {EntryLabel}

\* C24: at the end of a function with a return type whose last block the
\* walk left open, the end-of-function rule appends to the current block
\* one unconditional jump to a block of a label the walk registered, and
\* nothing else anywhere, when there is such a label; it aborts the pass,
\* building nothing, when there is none (an empty instruction list
\* included); it never builds a return.
C24_TypedFunctionFallback ==
  [][AtOpenEnd =>
       IF Registered = {}
       THEN /\ pc' = "abort"
            /\ error' = "MalformedTerminator"
            /\ blocks' = blocks
       ELSE /\ pc' # "abort"
            /\ \E l \in Registered :
                 blocks' = [blocks EXCEPT ![cur] = @ \o <<OpBr(Block(fi, l))>>]
            /\ cur[1] = fi]_vars

\* f: int with x = const 1; A: the end rule jumps from A to A
C24_Witness ==
  /\ pc \in {"finish", "done"}
  /\ prog = WalkProgram(3, <<Constant("x", "int", 1), Label("A")>>)
  /\ blocks[Block(1, "A")] = <<OpBr(Block(1, "A"))>>

\* f: int with x = const 1 only: no label, the pass aborts
C24_Abort ==
  /\ pc = "abort"
  /\ error = "MalformedTerminator"
  /\ prog = WalkProgram(3, <<Constant("x", "int", 1)>>)

\* where the module calls the runtime function f
CallsOf(f) ==
  {d \in Places : blocks[d[1]][d[2]].op = "call" /\ blocks[d[1]][d[2]].callee = f}

\* the operation k places behind d is in the block and satisfies nothing
\* yet: its record
OpAt(d, k) == blocks[d[1]][d[2] + k]

\* the operations a print is lowered to
IsPrintOp(o) ==
  \/ o.op = "load"
  \/ o.op = "int_cast"
  \/ o.op = "call" /\ o.callee \in {"_bril_print_int", "_bril_print_bool",
                                    "_bril_print_float", "_bril_print_sep",
                                    "_bril_print_end"}

\* C25: a module returned with the flag off has no tick call; one returned
\* with the flag on has one start-tick call, in the entry block of the
\* source's main behind nothing but the declarations of its variables, and
\* one end-tick call, in a block of main, followed at once by the
\* subtraction end minus start, the diagnostic print of the difference and
\* the operations of a print, with no print behind that one.
C25_TicksBracketFinalPrint ==
  pc = "done" =>
    LET starts == CallsOf("_bril_get_ticks_start")
        ends == CallsOf("_bril_get_ticks_end")
    IN  IF ~prog.add_timing THEN starts \cup ends = {}
        ELSE /\ HasSourceMain
             /\ Cardinality(starts) = 1
             /\ Cardinality(ends) = 1
             /\ \A d \in starts :
                  /\ Functions[d[1][1]].name = "main"
                  /\ d[1][2] = EntryLabel
                  /\ \A k \in 1..(d[2] - 1) :
                       blocks[d[1]][k].op \in {"alloca", "store"}
             /\ \A d \in ends : \A s \in starts :
                  /\ Functions[d[1][1]].name = "main"
                  /\ Len(blocks[d[1]]) >= d[2] + 3
                  /\ OpAt(d, 1) = OpBin("sub", OpAt(d, 1).dst, OpAt(d, 0).dst,
                                        OpAt(s, 0).dst)
                  /\ OpAt(d, 2) = OpCall("_bril_eprintln_unsigned_int",
                                         <<OpAt(d, 1).dst>>, Void)
                  /\ IsPrintOp(OpAt(d, 3))
                  /\ \A e \in CallsOf("_bril_print_end") :
                       e[1] = d[1] /\ e[2] > d[2]
                         /\ \A k \in (d[2] + 3)..e[2] : IsPrintOp(blocks[d[1]][k])

\* main: print x; ret; print x, with the flag: the module is returned with
\* two end-tick calls, the second behind the return and before no print
C25_Failure ==
  /\ pc = "done"
  /\ prog = WalkProgram(2, <<Effect("print", <<"x">>, <<>>, <<>>),
                             Effect("ret", <<>>, <<>>, <<>>),
                             Effect("print", <<"x">>, <<>>, <<>>)>>)
  /\ Cardinality(CallsOf("_bril_get_ticks_end")) = 2
  /\ LET ops == blocks[Block(1, EntryLabel)]
     IN  /\ ops[Len(ops) - 3] = OpRet(Void)
         /\ ops[Len(ops) - 2].op = "call"
         /\ ops[Len(ops) - 2].callee = "_bril_get_ticks_end"

\* main: x = const 1; print x, with the flag: the ticks bracket the body
C25_Bracketed ==
  /\ pc = "done"
  /\ prog = WalkProgram(2, <<Constant("x", "int", 1),
                             Effect("print", <<"x">>, <<>>, <<>>)>>)
  /\ Cardinality(CallsOf("_bril_get_ticks_start")) = 1
  /\ Cardinality(CallsOf("_bril_get_ticks_end")) = 1

\* C26: with the flag on, the pass does not abort with
\* InstrumentationPlacement on a program whose source main ends with a
\* print, or with a print and a return.
C26_FinalPrintAccepted ==
  (/\ prog.add_timing
   /\ HasSourceMain
   /\ EndsWithPrint(SourceMain.instrs)) => error # "InstrumentationPlacement"

\* main: print x; print x, with the flag: the assertion on the first print
\* (it is neither last nor followed by a return) aborts the pass
C26_Failure ==
  /\ pc = "abort"
  /\ error = "InstrumentationPlacement"
  /\ prog = WalkProgram(2, <<Effect("print", <<"x">>, <<>>, <<>>),
                             Effect("print", <<"x">>, <<>>, <<>>)>>)
  /\ index = 0

AtDeadPrint == AtDeadCode /\ IsPrint(CurInstrs[index + 1])

\* C27: with the flag on, the step of the walk over a print that is dead
\* code builds no operation, does not abort, and does not record that the
\* instrumented print was seen.
C27_DeadPrintNotInstrumented ==
  [][(AtDeadPrint /\ prog.add_timing) =>
       /\ blocks' = blocks
       /\ added_timing' = added_timing
       /\ pc' # "abort"]_vars

\* main: A: jmp A; print x, with the flag: the dead print left the tick
\* operations behind the jump and counted as the instrumented print, so
\* the module is returned
C27_Failure ==
  /\ pc = "done"
  /\ prog = WalkProgram(2, <<Label("A"),
                             Effect("jmp", <<>>, <<"A">>, <<>>),
                             Effect("print", <<"x">>, <<>>, <<>>)>>)
  /\ added_timing
  /\ LET ops == blocks[Block(1, "A")]
     IN  /\ Len(ops) = 4
         /\ ops[1] = OpBr(Block(1, "A"))
         /\ ops[2].op = "call" /\ ops[2].callee = "_bril_get_ticks_end"
         /\ ops[3].op = "sub"
         /\ ops[4].op = "call" /\ ops[4].callee = "_bril_eprintln_unsigned_int"

\* the (name, type) pairs f declares: its arguments and the destinations of
\* its Constant and Value instructions, wherever they stand
Declarations(f) ==
  {<<f.args[k].name, f.args[k].arg_type>> : k \in 1..Len(f.args)}
    \cup {<<f.instrs[k].dest, f.instrs[k].ty>> :
            k \in {j \in 1..Len(f.instrs) : f.instrs[j].kind \in {"const", "value"}}}

Conflicting(f) ==
  \E d \in Declarations(f), e \in Declarations(f) : d[1] = e[1] /\ d[2] # e[2]

\* C28: the step that declares a function aborts the pass with TypeConflict
\* if two of its declarations (arguments, destinations of instructions,
\* dead code included) give one name two types, and does not abort
\* otherwise, whatever the other functions of the program declare; no
\* later step raises TypeConflict.
C28_ConflictAnywhereInFunction ==
  [][/\ pc = "declare" =>
          IF Conflicting(Functions[fi])
          THEN pc' = "abort" /\ error' = "TypeConflict"
          ELSE pc' # "abort"
     /\ pc # "declare" => (error' = "TypeConflict" => error = "TypeConflict")]_vars

\* f(x: int) = ret; x: bool = const 1: the argument and the dead constant
\* conflict
C28_Witness ==
  /\ pc = "abort"
  /\ error = "TypeConflict"
  /\ fi = 1
  /\ prog = DeclProgram(TRUE, <<Argument("x", "int")>>, <<>>,
                        <<Effect("ret", <<>>, <<>>, <<>>),
                          Constant("x", "bool", 1)>>)

\* f(x: bool) beside g, whose x is an int: both are declared and the
\* module is returned
C28_TwoFunctions ==
  /\ pc = "done"
  /\ prog = DeclProgram(TRUE, <<Argument("x", "bool")>>, <<>>,
                        <<Constant("x", "bool", 1)>>)
  /\ funcs[1].heap["x"].ty = "bool"
  /\ funcs[2].heap["x"].ty = "int"

\* C29: two source functions with different names are mapped to different
\* target names, none to the name main of the synthesized entry point, and
\* each declared function is in the module under the name its source name
\* is mapped to, which is the name a call of it looks up.
C29_RenamingInjective ==
  /\ \A j \in 1..NumFuncs, k \in 1..NumFuncs :
       Functions[j].name # Functions[k].name =>
         FuncName(Functions[j].name) # FuncName(Functions[k].name)
  /\ \A k \in 1..NumFuncs : FuncName(Functions[k].name) # "main"
  /\ \A k \in 1..Len(funcs) : funcs[k].llvm_func = FuncName(Functions[k].name)

\* _main and main, each calling main: both are mapped to _main, the source
\* main is declared as _main.1, and its call of main is built as a call of
\* _main, which is the source's _main
C29_Failure ==
  /\ pc = "done"
  /\ prog = Program(<<Caller("_main", "none", FALSE, "main"),
                      Caller("main", "none", FALSE, "main")>>, FALSE)
  /\ funcs[1].llvm_func = "_main"
  /\ funcs[2].llvm_func = "_main.1"
  /\ \E o \in CallsBuiltIn(2) : o.callee = funcs[1].llvm_func

Ended == pc \in {"done", "abort"}

\* the pass has something to look at: a function to declare or to lower,
\* a code item under the index
InRange ==
  /\ (pc = "declare") => (fi \in 1..NumFuncs)
  /\ (pc \in {"begin", "walk", "end"}) =>
       (fi \in 1..NumFuncs /\ Len(funcs) = NumFuncs)
  /\ (pc = "walk") =>
       (/\ index < Len(CurInstrs)
        /\ IsLabel(CurInstrs[index + 1]) \/ IsInstruction(CurInstrs[index + 1]))

\* C30: every step of the walk of a function aborts the pass or moves the
\* index forward, by the length of the run for a phi run and by one
\* otherwise, within the instruction list or to its end; every step that
\* leaves the walk of a function goes on to the next function or to the
\* entry point; the pass always has a next item in range; and no run of
\* the pass takes steps for ever: it ends, returning the module or
\* aborting.
C30_Terminates ==
  /\ InRange
  /\ [][/\ InRange'
        /\ (pc = "walk") =>
             (\/ pc' = "abort"
              \/ /\ index' = index + (IF AtPhiRun THEN RunLength(CurInstrs, index)
                                                   ELSE 1)
                 /\ index' > index
                 /\ index' <= Len(CurInstrs)
                 /\ fi' = fi
                 /\ pc' = IF index' < Len(CurInstrs) THEN "walk" ELSE "end")
        /\ (pc = "end") =>
             (\/ pc' = "abort"
              \/ pc' = "begin" /\ fi' = fi + 1
              \/ pc' = "finish" /\ fi = NumFuncs)]_vars
  /\ ([]<><<Next>>_vars) => <>Ended

\* main: ret; nop; A: (a dead instruction and a label walked over), with the
\* module returned
C30_Witness ==
  /\ pc = "done"
  /\ index = 3
  /\ prog = WalkProgram(1, <<Effect("ret", <<>>, <<>>, <<>>),
                             Effect("nop", <<>>, <<>>, <<>>),
                             Label("A")>>)

====
